---------------------------- MODULE Spec2Model ----------------------------
(***************************************************************************)
(* Model of the swarm-conductor session core:                              *)
(*   - the phase state machine reducer (src/core/state.ts),                *)
(*   - the SQLite state repository (state/repository.ts, schema.sql),      *)
(*   - the control-API handlers built on it (src/mcp/handlers.ts).         *)
(*                                                                         *)
(* and of what surrounds it: the phase-advance decision (core/phases.ts),  *)
(* the confidence score (core/confidence.ts), the migration runner         *)
(* (state/migrations.ts), the scheduled cleanup (state/cleanup.ts), the    *)
(* conductor loop (core/conductor.ts) and the TimeoutManager               *)
(* (browser/timeout.ts).                                                   *)
(*                                                                         *)
(* The specifications of the module share its variables:                   *)
(*   SpecPhases   the reducer driven by phase and confidence actions       *)
(*   SpecDecide   the phase-advance decision consulted repeatedly          *)
(*   SpecTerminal the reducer driven on after the terminal phase           *)
(*   Spec         the repository called directly (every call is one        *)
(*                synchronous step: no method body contains an await)      *)
(*   SpecApi      control-API requests, one step per await-delimited       *)
(*                segment of a handler, interleaved with cleanup           *)
(*   SpecMigrate  migrate calls, one step per await-delimited segment      *)
(*   SpecSchedule the cleanup timer and its cycles; FairSpecSchedule adds  *)
(*                the fairness of the timer and of the event loop          *)
(*   SpecReducer  the reducer driven by all six actions, ill-formed        *)
(*                numbers and absent agents among their payloads           *)
(*   SpecEvaluate the confidence scores (core/confidence.ts of factors,    *)
(*                mcp/handlers.ts of a swarm outcome) applied to inputs    *)
(*   SpecSprint   init and sprint requests, the init giving a threshold    *)
(*   SpecCheckpoints  checkpoints created and listed, several per tick     *)
(*   SpecArtifacts    artifacts saved and a checkpoint request's steps     *)
(*   SpecOverlap  init and sprint requests whose steps interleave          *)
(*   SpecLimit    init giving max_sprints, then sprint requests            *)
(*   SpecAssign   tasks added to the aggregate and assigned to agents      *)
(*   SpecConductor    runSwarm, one step per await-delimited segment;      *)
(*                FairSpecConductor adds the fairness of the event loop    *)
(*   SpecTimeouts timeouts created, fired, cancelled one by one or all     *)
(***************************************************************************)
EXTENDS Integers, Sequences, FiniteSets, TLC

VARIABLES
  swarm,        \* reducer: the current SwarmState aggregate
  lastAction,   \* reducer: the action dispatched last
  lastResult,   \* reducer: "none" | "ok" | "err", the kind of its Result
  prevSwarm,    \* reducer: the aggregate the last action was applied to
  dateBinding,  \* what the SQLite driver does with a Date parameter
  now,          \* wall clock, in ticks
  ids,          \* number of ids generated so far, per table
  sessions,     \* sessions table: id -> row
  sprints,      \* sprints table: id -> row
  artifacts,    \* artifacts table: id -> row
  checkpoints,  \* checkpoints table: id -> row
  memory,       \* external memory store: session id -> blob
  reqs,         \* control-API requests in flight: bag of frames
  lastOp,       \* the repository call or request step taken last
  cpGiven,      \* history: checkpoint id -> what createCheckpoint was given
  cancelDone,   \* history: session ids a cancel request has answered for
  iterations,   \* phase decisions taken since the aggregate entered its phase
  decision,     \* what shouldTransitionPhase answered last, for the current aggregate
  conductor,    \* runSwarm: position, loop passes begun, result, saveState calls
  ledger,       \* migrations table: whether it exists, and the versions in it
  schema,       \* schema objects in effect: <<version, statement>> that made them
  runs,         \* migrate calls: one frame per call, in the order they began
  schedule,     \* cleanup timer: its state and the counts of its cycles
  cycles,       \* scheduled cleanup cycles in flight: bag of positions
  evaluation,   \* confidence evaluator: the inputs given last and the score
  timeoutManager, \* TimeoutManager: idCounter, the timeouts map, the armed timers
  timeoutLog    \* history: onTimeout runs, cancellations, the value returned last

reducerVars == <<swarm, lastAction, lastResult, prevSwarm>>
storeVars == <<dateBinding, now, ids, sessions, sprints, artifacts,
               checkpoints, memory, reqs, lastOp, cpGiven, cancelDone>>
engineVars == <<iterations, decision, conductor>>
migrationVars == <<ledger, schema, runs>>
scheduleVars == <<schedule, cycles>>
evaluatorVars == <<evaluation>>
timeoutVars == <<timeoutManager, timeoutLog>>
vars == <<reducerVars, storeVars, engineVars, migrationVars, scheduleVars,
          evaluatorVars, timeoutVars>>

(***************************************************************************)
(* Bounds of the model                                                     *)
(***************************************************************************)
MaxTasks == 2
MaxHistory == 4
NumAgents == 2

\* Record constructors list their fields in the order TLC keeps them (the
\* order in which the names first occur in this module), so that a record is
\* never reordered in place while a second worker reads it.

\* a function with one more (or one changed) mapping
Put(f, k, v) == [x \in DOMAIN f \cup {k} |-> IF x = k THEN v ELSE f[x]]
\* a function restricted to the keys in S
Restrict(f, S) == [x \in S |-> f[x]]
\* object spread {...obj, ...upd}: fields of upd override those of obj
Spread(obj, upd) ==
  [k \in DOMAIN obj \cup DOMAIN upd |-> IF k \in DOMAIN upd THEN upd[k] ELSE obj[k]]

(***************************************************************************)
(* Phase state machine reducer                                             *)
(***************************************************************************)
SPARCPhase == {"planning", "executing", "testing", "refactoring", "completing"}
TaskStatus == {"pending", "in-progress", "completed", "failed"}
AgentStatus == {"idle", "busy", "error"}
Undefined == "undefined"

TaskIds == {"task-1", "task-2"}
AgentIds == {"agent-1", "agent-2"}

Ok(v) == [kind |-> "ok", value |-> v]
Err(m) == [kind |-> "err", error |-> m]

createInitialAgents(count) ==
  [i \in 1..count |->
     [id |-> IF i = 1 THEN "agent-1" ELSE "agent-2",
      status |-> "idle", currentTask |-> Undefined]]

createInitialState(agentCount) ==
  [phase |-> "planning", confidence |-> 5, previousStates |-> <<>>,
   tasks |-> <<>>, agents |-> createInitialAgents(agentCount)]

\* mutant: the table without its exit to the terminal phase
validTransitionsNoExit(phase) ==
  CASE phase = "planning" -> {"executing"}
    [] phase = "executing" -> {"testing", "planning"}
    [] phase = "testing" -> {"refactoring", "executing"}
    [] phase = "refactoring" -> {"testing"}
    [] phase = "completing" -> {}

\* mutant: the table with a direct exit from planning to the terminal phase
validTransitionsShortcut(phase) ==
  CASE phase = "planning" -> {"executing", "completing"}
    [] phase = "executing" -> {"testing", "planning"}
    [] phase = "testing" -> {"refactoring", "executing"}
    [] phase = "refactoring" -> {"testing", "completing"}
    [] phase = "completing" -> {}

\* mutant: the table with a way back from the terminal phase
validTransitionsRestart(phase) ==
  CASE phase = "planning" -> {"executing"}
    [] phase = "executing" -> {"testing", "planning"}
    [] phase = "testing" -> {"refactoring", "executing"}
    [] phase = "refactoring" -> {"testing", "completing"}
    [] phase = "completing" -> {"planning"}

\* mutant: a table with the forward transitions only
validTransitionsForwardOnly(phase) ==
  CASE phase = "planning" -> {"executing"}
    [] phase = "executing" -> {"testing"}
    [] phase = "testing" -> {"refactoring"}
    [] phase = "refactoring" -> {"completing"}
    [] phase = "completing" -> {}

validTransitions(phase) ==
  CASE phase = "planning" -> {"executing"}
    [] phase = "executing" -> {"testing", "planning"}
    [] phase = "testing" -> {"refactoring", "executing"}
    [] phase = "refactoring" -> {"testing", "completing"}
    [] phase = "completing" -> {}

\* mutant: a transition that keeps only the latest snapshot
transitionPhaseForgetting(state, newPhase) ==
  IF newPhase \notin validTransitions(state.phase)
    THEN Err("Invalid phase transition")
    ELSE Ok([state EXCEPT !.phase = newPhase, !.previousStates = <<state>>])

transitionPhase(state, newPhase) ==
  IF newPhase \notin validTransitions(state.phase)
    THEN Err("Invalid phase transition")
    ELSE Ok([state EXCEPT !.phase = newPhase,
                          !.previousStates = Append(state.previousStates, state)])

\* A number is an integer (confidence in tenths: the interval [0,1] is
\* 0..10) or NaN, which stands outside the order: every < and > that has
\* NaN on one side is false
NaN == 0 - 1000
Less(a, b) == a # NaN /\ b # NaN /\ a < b
Greater(a, b) == a # NaN /\ b # NaN /\ a > b

updateConfidence(state, confidence) ==
  IF Less(confidence, 0) \/ Greater(confidence, 10)
    THEN Err("Confidence must be between 0 and 1")
    ELSE Ok([state EXCEPT !.confidence = confidence])

addTask(state, task) == Ok([state EXCEPT !.tasks = Append(state.tasks, task)])

\* findIndex: the first index whose element has the id, 0 for -1
FindIndex(seq, id) ==
  IF \E i \in 1..Len(seq) : seq[i].id = id
    THEN CHOOSE i \in 1..Len(seq) :
           seq[i].id = id /\ \A j \in 1..(i - 1) : seq[j].id # id
    ELSE 0

updateTask(state, taskId, updates) ==
  LET taskIndex == FindIndex(state.tasks, taskId) IN
  IF taskIndex = 0
    THEN Err("Task not found")
    ELSE Ok([state EXCEPT !.tasks[taskIndex] = Spread(state.tasks[taskIndex], updates)])

updateAgent(state, agentId, updates) ==
  LET agentIndex == FindIndex(state.agents, agentId) IN
  IF agentIndex = 0
    THEN Err("Agent not found")
    ELSE Ok([state EXCEPT !.agents[agentIndex] = Spread(state.agents[agentIndex], updates)])

\* mutant: an assignment that keeps the task's update when the agent is
\* not found
assignTaskKeepingTask(state, taskId, agentId) ==
  LET taskResult == updateTask(state, taskId, [assignedTo |-> agentId]) IN
  IF taskResult.kind = "err"
    THEN taskResult
    ELSE IF FindIndex(state.agents, agentId) = 0
      THEN taskResult
      ELSE updateAgent(taskResult.value, agentId,
                       [status |-> "busy", currentTask |-> taskId])

assignTask(state, taskId, agentId) ==
  LET taskResult == updateTask(state, taskId, [assignedTo |-> agentId]) IN
  IF taskResult.kind = "err"
    THEN taskResult
    ELSE updateAgent(taskResult.value, agentId,
                     [status |-> "busy", currentTask |-> taskId])

reduceState(state, action) ==
  CASE action.type = "TRANSITION_PHASE" -> transitionPhase(state, action.phase)
    [] action.type = "UPDATE_CONFIDENCE" -> updateConfidence(state, action.confidence)
    [] action.type = "ADD_TASK" -> addTask(state, action.task)
    [] action.type = "UPDATE_TASK" -> updateTask(state, action.taskId, action.updates)
    [] action.type = "ASSIGN_TASK" -> assignTask(state, action.taskId, action.agentId)
    [] action.type = "UPDATE_AGENT" -> updateAgent(state, action.agentId, action.updates)
    [] OTHER -> Err("Unknown action type")

\* inputs the reducer is driven with
ConfidenceInputs == {-1, 0, 10, 11}
TaskUpdates == {[status |-> "completed"], [status |-> "failed"]}
AgentUpdates == {[status |-> "idle", currentTask |-> Undefined], [status |-> "error"]}
NewTasks == {[id |-> t, status |-> "pending", assignedTo |-> Undefined] : t \in TaskIds}

\* no phase decision is at hand (none taken yet, or the aggregate has changed)
NoDecision == [reason |-> "none"]

\* runSwarm has not been called
ConductorIdle == [pc |-> "idle", passes |-> 0, result |-> "none", saves |-> <<>>]

\* the caller's use of the reducer: adopt the new aggregate on ok, keep the
\* old one on err
Dispatch(action) ==
  LET r == reduceState(swarm, action) IN
  /\ prevSwarm' = swarm
  /\ lastAction' = action
  /\ lastResult' = r.kind
  /\ swarm' = IF r.kind = "ok" THEN r.value ELSE swarm
  /\ iterations' = IF r.kind = "ok" /\ r.value.phase # swarm.phase THEN 0 ELSE iterations
  /\ decision' = NoDecision
  /\ UNCHANGED <<conductor, storeVars, migrationVars, scheduleVars, evaluatorVars, timeoutVars>>

TransitionPhaseWithin(maxHistory) ==
  /\ Len(swarm.previousStates) < maxHistory
  /\ \E p \in SPARCPhase : Dispatch([phase |-> p, type |-> "TRANSITION_PHASE"])

TransitionPhase == TransitionPhaseWithin(MaxHistory)

UpdateConfidenceWith(inputs) ==
  \E c \in inputs : Dispatch([confidence |-> c, type |-> "UPDATE_CONFIDENCE"])

UpdateConfidence == UpdateConfidenceWith(ConfidenceInputs)

AddTaskWithin(maxTasks) ==
  /\ Len(swarm.tasks) < maxTasks
  /\ \E t \in NewTasks : Dispatch([task |-> t, type |-> "ADD_TASK"])

AddTask == AddTaskWithin(MaxTasks)

UpdateTask ==
  \E t \in TaskIds, u \in TaskUpdates :
    Dispatch([taskId |-> t, updates |-> u, type |-> "UPDATE_TASK"])

AssignTaskWith(agents) ==
  \E t \in TaskIds, a \in agents :
    Dispatch([taskId |-> t, agentId |-> a, type |-> "ASSIGN_TASK"])

AssignTask == AssignTaskWith(AgentIds)

UpdateAgentWith(agents, updates) ==
  \E a \in agents, u \in updates :
    Dispatch([updates |-> u, agentId |-> a, type |-> "UPDATE_AGENT"])

UpdateAgent == UpdateAgentWith(AgentIds, AgentUpdates)

NoAction == [type |-> "NONE"]

\* a fresh database file: no migrations table, no schema object, no migrate
\* call made
MigrationIdle ==
  /\ ledger = [exists |-> FALSE, rows |-> {}]
  /\ schema = {}
  /\ runs = <<>>

\* scheduleCleanup not called yet
ScheduleIdle ==
  /\ schedule = [timer |-> "none", started |-> 0, failed |-> 0]
  /\ cycles = <<>>

\* the evaluator has not been called
NoEvaluation == [of |-> "none"]
EvaluatorIdle == evaluation = NoEvaluation

\* how many timeouts a manager is asked for
MaxTimeouts == 3
TimeoutIds == 1..MaxTimeouts

\* new TimeoutManager(): no timeout, idCounter = 0; no timer is armed
NewTimeoutManager == [idCounter |-> 0, timeouts |-> <<>>, timers |-> {}]
NoTimeoutLog ==
  [runs |-> [id \in TimeoutIds |-> 0], trueCancels |-> [id \in TimeoutIds |-> 0],
   fired |-> {}, cancelled |-> {}, last |-> [op |-> "none"]]
TimeoutIdle == timeoutManager = NewTimeoutManager /\ timeoutLog = NoTimeoutLog

StoreIdle ==
  /\ dateBinding = "text"
  /\ now = 0
  /\ ids = [session |-> 0, sprint |-> 0, artifact |-> 0, checkpoint |-> 0, request |-> 0]
  /\ sessions = <<>>
  /\ sprints = <<>>
  /\ artifacts = <<>>
  /\ checkpoints = <<>>
  /\ memory = <<>>
  /\ reqs = <<>>
  /\ lastOp = [op |-> "none"]
  /\ cpGiven = <<>>
  /\ cancelDone = {}
  /\ MigrationIdle
  /\ ScheduleIdle

ReducerIdle ==
  /\ iterations = 0
  /\ decision = NoDecision
  /\ conductor = ConductorIdle
  /\ swarm = createInitialState(NumAgents)
  /\ prevSwarm = createInitialState(NumAgents)
  /\ lastAction = NoAction
  /\ lastResult = "none"

InitReducer ==
  /\ ReducerIdle
  /\ StoreIdle
  /\ EvaluatorIdle
  /\ TimeoutIdle

\* the reducer's phase machine alone, over histories long enough to reach
\* every phase
NextPhases ==
  \/ TransitionPhase
  \/ UpdateConfidence

SpecPhases == InitReducer /\ [][NextPhases]_vars

(***************************************************************************)
(* Phase-advance decision (core/phases.ts)                                 *)
(***************************************************************************)
\* how far past a phase's iteration cap the decisions are counted
MaxOverrun == 1
\* how many advances the decisions are followed through
MaxAdvances == 2

\* PHASE_CRITERIA, with minConfidence and requiredCompletions in hundredths
PHASE_CRITERIA ==
  [planning |-> [minConfidence |-> 70, requiredCompletions |-> 100, maxIterations |-> 3],
   executing |-> [minConfidence |-> 60, requiredCompletions |-> 80, maxIterations |-> 5],
   testing |-> [minConfidence |-> 80, requiredCompletions |-> 100, maxIterations |-> 3],
   refactoring |-> [minConfidence |-> 85, requiredCompletions |-> 100, maxIterations |-> 2],
   completing |-> [minConfidence |-> 90, requiredCompletions |-> 100, maxIterations |-> 1]]

\* state.tasks.filter(t => t.status === 'completed'), as indices
completedTasks(tasks) == {i \in 1..Len(tasks) : tasks[i].status = "completed"}

\* t.description.toLowerCase().includes('test'): the model's tasks carry no
\* description, task-2 stands for the task that describes a test
DescribesTest(t) == t.id = "task-2"

\* state.tasks.filter(t => t.description.toLowerCase().includes('test'))
testTasks(tasks) == {i \in 1..Len(tasks) : DescribesTest(tasks[i])}

\* testTasks.filter(t => t.status === 'failed')
failedTests(tasks) == {i \in testTasks(tasks) : tasks[i].status = "failed"}

\* calculateCompletionRate(state) < required, the rate being 0 for no task
\* and completed / total otherwise; required is in hundredths
CompletionRateBelow(state, required) ==
  IF Len(state.tasks) = 0
    THEN 0 < required
    ELSE Cardinality(completedTasks(state.tasks)) * 100 < required * Len(state.tasks)

\* calculateTestFailureRate(state) > 0.3, the rate being 0 for no test task
TestFailureRateAbove3Tenths(state) ==
  /\ testTasks(state.tasks) # {}
  /\ Cardinality(failedTests(state.tasks)) * 10
       > 3 * Cardinality(testTasks(state.tasks))

\* getNextPhase; null is Undefined
getNextPhase(state) ==
  CASE state.phase = "planning" -> "executing"
    [] state.phase = "executing" ->
         IF Less(state.confidence, 5) THEN "planning" ELSE "testing"
    [] state.phase = "testing" ->
         IF TestFailureRateAbove3Tenths(state) THEN "executing" ELSE "refactoring"
    [] state.phase = "refactoring" -> "testing"
    [] state.phase = "completing" -> Undefined

\* the results shouldTransitionPhase builds; reason keeps the fixed part of
\* the message text
StayDecision(reason) ==
  [reason |-> reason, shouldTransition |-> FALSE, nextPhase |-> Undefined]
AdvanceDecision(nextPhase) ==
  [reason |-> "All criteria met for phase transition", shouldTransition |-> TRUE,
   nextPhase |-> nextPhase]

\* mutant: a decision that looks at the confidence threshold only
shouldTransitionPhaseOnConfidence(state, confidence) ==
  LET currentCriteria == PHASE_CRITERIA[state.phase]
      nextPhase == getNextPhase(state)
  IN IF confidence * 10 < currentCriteria.minConfidence
       THEN Ok(StayDecision("Confidence below minimum"))
     ELSE IF nextPhase = Undefined
       THEN Ok(StayDecision("No valid next phase available"))
     ELSE Ok(AdvanceDecision(nextPhase))

\* shouldTransitionPhase(state) with the default criteria; confidence is the
\* value calculateConfidence(state) returned, in tenths
shouldTransitionPhase(state, confidence) ==
  LET currentCriteria == PHASE_CRITERIA[state.phase]
      nextPhase == getNextPhase(state)
  IN IF confidence * 10 < currentCriteria.minConfidence
       THEN Ok(StayDecision("Confidence below minimum"))
     ELSE IF CompletionRateBelow(state, currentCriteria.requiredCompletions)
       THEN Ok(StayDecision("Completion rate below required"))
     ELSE IF nextPhase = Undefined
       THEN Ok(StayDecision("No valid next phase available"))
     ELSE Ok(AdvanceDecision(nextPhase))

\* the values calculateConfidence(state) is taken to return: a score in [0,1]
RecomputedConfidences == {0, 7, 10}

\* one more decision for the current aggregate
Decide ==
  /\ iterations < PHASE_CRITERIA[swarm.phase].maxIterations + MaxOverrun
  /\ \E confidence \in RecomputedConfidences :
       decision' = shouldTransitionPhase(swarm, confidence).value
  /\ iterations' = iterations + 1
  /\ UNCHANGED <<reducerVars, conductor, storeVars, migrationVars,
                 scheduleVars, evaluatorVars, timeoutVars>>

\* the caller follows a decision to advance (conductor.ts: TRANSITION_PHASE
\* with the proposed phase)
Advance ==
  /\ decision # NoDecision
  /\ decision.shouldTransition
  /\ Len(swarm.previousStates) < MaxAdvances
  /\ Dispatch([phase |-> decision.nextPhase, type |-> "TRANSITION_PHASE"])

\* the decision function consulted again and again while tasks are added
\* and worked off
NextDecide ==
  \/ Decide
  \/ Advance
  \/ AddTask
  \/ UpdateTask
  \/ UpdateConfidence

SpecDecide == InitReducer /\ [][NextDecide]_vars

(***************************************************************************)
(* Tasks added and assigned, from createInitialState                       *)
(***************************************************************************)
NextAssign ==
  \/ AddTask
  \/ AssignTask

SpecAssign == InitReducer /\ [][NextAssign]_vars

(***************************************************************************)
(* The conductor loop (core/conductor.ts: runSwarm)                        *)
(***************************************************************************)
\* how many loop passes a call is followed through
MaxPasses == 2

\* the sample task the loop adds to an aggregate without tasks
SampleTask == [id |-> "task-1", status |-> "completed", assignedTo |-> Undefined]

\* the aggregates runSwarm is called with
InitialTaskLists ==
  {<<>>} \cup {<<[id |-> "task-1", status |-> st, assignedTo |-> Undefined]>> :
                 st \in {"pending", "completed"}}
        \cup {<<[id |-> "task-1", status |-> "completed", assignedTo |-> Undefined],
                [id |-> "task-2", status |-> st, assignedTo |-> Undefined]>> :
                 st \in {"completed", "failed"}}

InitialAggregates ==
  {[phase |-> p, confidence |-> c, previousStates |-> <<>>, tasks |-> t,
    agents |-> createInitialAgents(NumAgents)] :
     p \in SPARCPhase, c \in {0, 5, 10}, t \in InitialTaskLists}

\* the loop body up to the phase decision's outcome: UPDATE_CONFIDENCE with
\* the recomputed confidence, shouldTransitionPhase, and TRANSITION_PHASE
\* with the proposed phase; saved says whether saveState is awaited next
DecidePhase(state, confidence) ==
  LET confidenceResult == reduceState(state, [confidence |-> confidence,
                                              type |-> "UPDATE_CONFIDENCE"])
  IN IF confidenceResult.kind = "err"
       THEN [kind |-> "err", state |-> state, saved |-> FALSE]
       ELSE LET updated == confidenceResult.value
                transitionResult == shouldTransitionPhase(updated, confidence)
            IN IF transitionResult.value.shouldTransition
                    /\ transitionResult.value.nextPhase # Undefined
                 THEN LET phaseResult ==
                            reduceState(updated,
                                        [phase |-> transitionResult.value.nextPhase,
                                         type |-> "TRANSITION_PHASE"])
                      IN IF phaseResult.kind = "err"
                           THEN [kind |-> "err", state |-> updated, saved |-> FALSE]
                           ELSE [kind |-> "ok", state |-> phaseResult.value,
                                 saved |-> TRUE]
                 ELSE [kind |-> "ok", state |-> updated, saved |-> FALSE]

\* mutant: a loop body that leaves the aggregate in its phase when the
\* transition to completing is rejected
CompletePassLenient(state) ==
  LET withTask == IF Len(state.tasks) = 0
                    THEN reduceState(state, [task |-> SampleTask, type |-> "ADD_TASK"]).value
                    ELSE state
      completeResult == reduceState(withTask, [phase |-> "completing",
                                               type |-> "TRANSITION_PHASE"])
  IN IF completeResult.kind = "err"
       THEN [kind |-> "ok", state |-> withTask]
       ELSE [kind |-> "ok", state |-> completeResult.value]

\* the rest of the loop body: ADD_TASK with the sample task if there is no
\* task, then TRANSITION_PHASE to completing
CompletePass(state) ==
  LET taskResult == IF Len(state.tasks) = 0
                      THEN reduceState(state, [task |-> SampleTask, type |-> "ADD_TASK"])
                      ELSE Ok(state)
  IN IF taskResult.kind = "err"
       THEN [kind |-> "err", state |-> state]
       ELSE LET completeResult == reduceState(taskResult.value,
                                              [phase |-> "completing",
                                               type |-> "TRANSITION_PHASE"])
            IN IF completeResult.kind = "err"
                 THEN [kind |-> "err", state |-> taskResult.value]
                 ELSE [kind |-> "ok", state |-> completeResult.value]

\* return err(...) / the end of the loop body
AfterPass(outcome, running) ==
  IF outcome.kind = "err"
    THEN [running EXCEPT !.pc = "returned", !.result = "err"]
    ELSE [running EXCEPT !.pc = "loop"]

\* the loop test and, in a pass, the body up to its first await or its end
ConductorLoop ==
  /\ conductor.pc = "loop"
  /\ IF swarm.phase = "completing"
       THEN /\ conductor' = [conductor EXCEPT !.pc = "finalSave",
                                               !.saves = Append(@, swarm)]
            /\ swarm' = swarm
       ELSE /\ conductor.passes < MaxPasses
            /\ \E confidence \in RecomputedConfidences :
                 LET running == [conductor EXCEPT !.passes = @ + 1]
                     decided == DecidePhase(swarm, confidence)
                     completed == CompletePass(decided.state)
                 IN IF decided.kind = "err"
                      THEN /\ swarm' = decided.state
                           /\ conductor' = AfterPass(decided, running)
                    ELSE IF decided.saved
                      THEN /\ swarm' = decided.state
                           /\ conductor' = [running EXCEPT
                                              !.pc = "saving",
                                              !.saves = Append(@, decided.state)]
                    ELSE /\ swarm' = completed.state
                         /\ conductor' = AfterPass(completed, running)
  /\ UNCHANGED <<lastAction, lastResult, prevSwarm, iterations, decision,
                 storeVars, migrationVars, scheduleVars, evaluatorVars, timeoutVars>>

\* saveState after a phase transition has settled (its result is not looked
\* at): the rest of the loop body
ConductorResume ==
  /\ conductor.pc = "saving"
  /\ LET completed == CompletePass(swarm) IN
       /\ swarm' = completed.state
       /\ conductor' = AfterPass(completed, conductor)
  /\ UNCHANGED <<lastAction, lastResult, prevSwarm, iterations, decision,
                 storeVars, migrationVars, scheduleVars, evaluatorVars, timeoutVars>>

\* the final saveState has settled: return ok(undefined)
ConductorReturn ==
  /\ conductor.pc = "finalSave"
  /\ conductor' = [conductor EXCEPT !.pc = "returned", !.result = "ok"]
  /\ UNCHANGED <<reducerVars, iterations, decision, storeVars, migrationVars,
                 scheduleVars, evaluatorVars, timeoutVars>>

NextConductor ==
  \/ ConductorLoop
  \/ ConductorResume
  \/ ConductorReturn

\* runSwarm(initialState, options) has been called
InitConductor ==
  /\ swarm \in InitialAggregates
  /\ prevSwarm = swarm
  /\ lastAction = NoAction
  /\ lastResult = "none"
  /\ iterations = 0
  /\ decision = NoDecision
  /\ conductor = [ConductorIdle EXCEPT !.pc = "loop"]
  /\ StoreIdle
  /\ EvaluatorIdle
  /\ TimeoutIdle

SpecConductor == InitConductor /\ [][NextConductor]_vars

\* the event loop resumes the call whenever an awaited promise has settled
FairSpecConductor == SpecConductor /\ WF_vars(NextConductor)

(***************************************************************************)
(* The reducer driven on after the terminal phase                          *)
(***************************************************************************)
\* how many tasks are added to an aggregate that has reached completing
MaxLateTasks == 1

Completing == swarm.phase = "completing"

\* phase actions take the aggregate through its phases; once it is in
\* completing every reducer action is dispatched on it
NextTerminal ==
  \/ TransitionPhaseWithin(MaxHistory + 1)
  \/ Completing /\ UpdateConfidence
  \/ Completing /\ AddTaskWithin(MaxLateTasks)
  \/ Completing /\ UpdateTask
  \/ Completing /\ AssignTask
  \/ Completing /\ UpdateAgent

SpecTerminal == InitReducer /\ [][NextTerminal]_vars

(***************************************************************************)
(* The reducer with all six actions, from createInitialState               *)
(***************************************************************************)
\* how many tasks and history entries together an aggregate is grown to
MaxAggregate == 2

Growable == Len(swarm.tasks) + Len(swarm.previousStates) < MaxAggregate

\* the confidence values of the actions: below 0, within [0,1], above 1, and
\* the number that is neither below 0 nor above 1 nor within [0,1]
NumberInputs == {-1, 10, 11, NaN}

\* agent-3 is the id of no agent
AbsentAgent == "agent-3"
AgentIdInputs == AgentIds \cup {AbsentAgent}

\* every action type, accepted and rejected; the agent updates are those of
\* one agent failing
NextReducer ==
  \/ Growable /\ TransitionPhase
  \/ Growable /\ AddTask
  \/ UpdateConfidenceWith(NumberInputs)
  \/ UpdateTask
  \/ AssignTaskWith(AgentIdInputs)
  \/ UpdateAgentWith({"agent-1", AbsentAgent}, {[status |-> "error"]})

SpecReducer == InitReducer /\ [][NextReducer]_vars

(***************************************************************************)
(* C2                                                                      *)
(***************************************************************************)
ClaimedPairs ==
  {<<"planning", "executing">>, <<"executing", "testing">>,
   <<"executing", "planning">>, <<"testing", "refactoring">>,
   <<"testing", "executing">>, <<"refactoring", "testing">>}

AcceptedPairs == ClaimedPairs \cup {<<"refactoring", "completing">>}

TransitionOutcomeIs(pairs) ==
  lastAction.type = "TRANSITION_PHASE" =>
    /\ (lastResult = "ok") <=> (<<prevSwarm.phase, lastAction.phase>> \in pairs)
    /\ lastResult = "ok" =>
         swarm = [prevSwarm EXCEPT !.phase = lastAction.phase,
                                   !.previousStates = Append(@, prevSwarm)]
    /\ lastResult = "err" => swarm = prevSwarm

MaxSessions == 2
MaxSprints == 2
MaxArtifacts == 1
MaxCheckpoints == 1
MaxClock == 1
TicksPerDay == 2
MaxAgeInput == 1

SessionStatus == {"active", "completed", "failed", "cancelled"}
TerminalStatus == {"completed", "failed", "cancelled"}
SprintStatus == {"planning", "executing", "completed", "failed"}

\* JavaScript values that carry a time: a Date object, a string, undefined
DateV(t) == [kind |-> "Date", t |-> t]
StringV(t) == [kind |-> "string", t |-> t]
UndefinedV == [kind |-> "undefined", t |-> 0]

\* TEXT stored in a DATETIME column: Date.toISOString() gives
\* 'YYYY-MM-DDTHH:MM:SS.sssZ', SQLite's CURRENT_TIMESTAMP 'YYYY-MM-DD HH:MM:SS'
IsoText(t) == [t |-> t, fmt |-> "iso"]
SqlText(t) == [t |-> t, fmt |-> "sql"]
NullText == [t |-> 0, fmt |-> "null"]

DayOf(t) == t \div TicksPerDay
TimeOfDay(t) == t % TicksPerDay
\* the character after the date: ' ' (0x20) sorts before 'T' (0x54)
SeparatorRank(text) == IF text.fmt = "sql" THEN 0 ELSE 1

\* a < b on TEXT values, as SQLite's BINARY collation compares the strings
TextLess(a, b) ==
  \/ DayOf(a.t) < DayOf(b.t)
  \/ /\ DayOf(a.t) = DayOf(b.t)
     /\ \/ SeparatorRank(a) < SeparatorRank(b)
        \/ /\ SeparatorRank(a) = SeparatorRank(b)
           /\ TimeOfDay(a.t) < TimeOfDay(b.t)

\* new Date(text) / row.x ? new Date(row.x) : undefined
DateOfText(text) == IF text.fmt = "null" THEN UndefinedV ELSE DateV(text.t)

\* whether the driver accepts the value as a statement parameter: strings
\* always, a Date object only if the driver converts it
CanBind(v) == v.kind # "Date" \/ dateBinding = "text"
BoundText(v) == IF v.kind = "undefined" THEN NullText ELSE IsoText(v.t)

\* JSON.parse(JSON.stringify(v)) of a time value: a Date comes back as the
\* string of its toISOString()
JsonTime(v) == IF v.kind = "Date" THEN StringV(v.t) ELSE v

\* JSON.parse(JSON.stringify(obj)) of a Session or Sprint object
JsonObject(obj) ==
  [k \in DOMAIN obj |->
     IF k \in {"updatedAt", "completedAt"} THEN JsonTime(obj[k]) ELSE obj[k]]

\* JSON.parse(JSON.stringify(state)) of a CheckpointState
JsonState(state) ==
  [sprints |-> [i \in DOMAIN state.sprints |-> JsonObject(state.sprints[i])],
   artifacts |-> state.artifacts,
   memory |-> state.memory,
   session |-> JsonObject(state.session)]

(***************************************************************************)
(* SQLiteStateRepository                                                   *)
(***************************************************************************)
NullRow == <<>>
DefaultMetadata == [confidence_threshold |-> 8, max_sprints |-> 10]

\* row -> Session object, as getSession and listActiveSessions build it
SessionOfRow(id, row) ==
  [id |-> id,
   status |-> row.status,
   sprintCount |-> row.sprint_count,
   confidenceLevel |-> row.confidence_level,
   updatedAt |-> DateOfText(row.updated_at),
   completedAt |-> DateOfText(row.completed_at),
   metadata |-> row.metadata]

\* row -> Sprint object, as updateSprint and getSprintsBySession build it
SprintOfRow(id, row) ==
  [id |-> id,
   status |-> row.status,
   confidence |-> row.confidence,
   result |-> row.result,
   completedAt |-> DateOfText(row.completed_at),
   sessionId |-> row.session_id,
   sprintNumber |-> row.sprint_number]

createSession(metadata) ==
  LET id == ids.session + 1
      row == [status |-> "active", sprint_count |-> 0, confidence_level |-> 0,
              updated_at |-> IsoText(now), completed_at |-> NullText,
              metadata |-> metadata]
  IN [sessions |-> Put(sessions, id, row), result |-> Ok(SessionOfRow(id, row))]

getSessionIn(table, id) ==
  IF id \in DOMAIN table THEN Ok(SessionOfRow(id, table[id])) ELSE Ok(NullRow)

getSession(id) == getSessionIn(sessions, id)

\* UPDATE sessions SET <supplied fields> WHERE id = ?, followed by the
\* update_sessions_timestamp trigger
UpdatedSessionRow(row, updates) ==
  [status |-> IF "status" \in DOMAIN updates THEN updates.status ELSE row.status,
   sprint_count |-> IF "sprintCount" \in DOMAIN updates
                      THEN updates.sprintCount ELSE row.sprint_count,
   confidence_level |-> IF "confidenceLevel" \in DOMAIN updates
                          THEN updates.confidenceLevel ELSE row.confidence_level,
   updated_at |-> SqlText(now),
   completed_at |-> IF "completedAt" \in DOMAIN updates
                      THEN BoundText(updates.completedAt) ELSE row.completed_at,
   metadata |-> IF "metadata" \in DOMAIN updates
                  THEN updates.metadata ELSE row.metadata]

updateSession(id, updates) ==
  IF DOMAIN updates = {}
    THEN [sessions |-> sessions, result |-> Err("syntax error")]
  ELSE IF "completedAt" \in DOMAIN updates /\ ~CanBind(updates.completedAt)
    THEN [sessions |-> sessions, result |-> Err("Binding expected string")]
  ELSE LET after == IF id \in DOMAIN sessions
                      THEN Put(sessions, id, UpdatedSessionRow(sessions[id], updates))
                      ELSE sessions
       IN [sessions |-> after, result |-> getSessionIn(after, id)]

SprintsOf(table, sessionId) == {x \in DOMAIN table : table[x].session_id = sessionId}

\* mutant: numbering from the count itself
CountAsSprintNumber(sessionId) == Cardinality(SprintsOf(sprints, sessionId))

\* SELECT COUNT(*) ... WHERE session_id = ?, plus one
NextSprintNumber(sessionId) == Cardinality(SprintsOf(sprints, sessionId)) + 1

\* mutant: the INSERT of a sprint that is executing from the start
createSprintExecuting(sessionId) ==
  LET id == ids.sprint + 1
      row == [session_id |-> sessionId,
              sprint_number |-> Cardinality({x \in DOMAIN sprints :
                                  sprints[x].session_id = sessionId}) + 1,
              confidence |-> 0, status |-> "executing",
              completed_at |-> [t |-> 0, fmt |-> "null"], result |-> "null"]
  IN IF sessionId \notin DOMAIN sessions
       THEN [result |-> [kind |-> "err", error |-> "FOREIGN KEY constraint failed"],
             sprints |-> sprints]
       ELSE [result |-> [kind |-> "ok", value |-> [id |-> id]],
             sprints |-> [x \in DOMAIN sprints \cup {id} |->
                            IF x = id THEN row ELSE sprints[x]]]

createSprint(sessionId) ==
  LET id == ids.sprint + 1
      sprintNumber == NextSprintNumber(sessionId)
      row == [session_id |-> sessionId, sprint_number |-> sprintNumber,
              confidence |-> 0, status |-> "planning",
              completed_at |-> NullText, result |-> "null"]
  IN IF sessionId \notin DOMAIN sessions
       THEN [result |-> Err("FOREIGN KEY constraint failed"), sprints |-> sprints]
     ELSE IF \E x \in SprintsOf(sprints, sessionId) :
               sprints[x].sprint_number = sprintNumber
       THEN [result |-> Err("UNIQUE constraint failed"), sprints |-> sprints]
     ELSE [result |-> Ok(SprintOfRow(id, row)), sprints |-> Put(sprints, id, row)]

UpdatedSprintRow(row, updates) ==
  [session_id |-> row.session_id,
   sprint_number |-> row.sprint_number,
   confidence |-> IF "confidence" \in DOMAIN updates
                    THEN updates.confidence ELSE row.confidence,
   status |-> IF "status" \in DOMAIN updates THEN updates.status ELSE row.status,
   completed_at |-> IF "completedAt" \in DOMAIN updates
                      THEN BoundText(updates.completedAt) ELSE row.completed_at,
   result |-> IF "result" \in DOMAIN updates THEN updates.result ELSE row.result]

updateSprint(id, updates) ==
  IF DOMAIN updates = {}
    THEN [result |-> Err("syntax error"), sprints |-> sprints]
  ELSE IF "completedAt" \in DOMAIN updates /\ ~CanBind(updates.completedAt)
    THEN [result |-> Err("Binding expected string"), sprints |-> sprints]
  ELSE IF id \notin DOMAIN sprints
    THEN [result |-> Err("undefined is not an object"), sprints |-> sprints]
  ELSE LET row == UpdatedSprintRow(sprints[id], updates)
       IN [result |-> Ok(SprintOfRow(id, row)), sprints |-> Put(sprints, id, row)]

\* the ids of a set of rows in ascending order of key(id)
RECURSIVE SortedBy(_, _)
SortedBy(S, key) ==
  IF S = {} THEN <<>>
  ELSE LET x == CHOOSE y \in S : \A z \in S : key[y] <= key[z]
       IN <<x>> \o SortedBy(S \ {x}, key)

\* mutant: the same SELECT with ORDER BY sprint_number DESC
getSprintsBySessionDescending(sessionId) ==
  LET mine == SprintsOf(sprints, sessionId)
      order == SortedBy(mine, [x \in mine |-> 0 - sprints[x].sprint_number])
  IN [i \in DOMAIN order |-> SprintOfRow(order[i], sprints[order[i]])]

\* SELECT * FROM sprints WHERE session_id = ? ORDER BY sprint_number
getSprintsBySession(sessionId) ==
  LET mine == SprintsOf(sprints, sessionId)
      order == SortedBy(mine, [x \in mine |-> sprints[x].sprint_number])
  IN [i \in DOMAIN order |-> SprintOfRow(order[i], sprints[order[i]])]

saveArtifact(sprintId, artifact) ==
  LET id == ids.artifact + 1
      row == [sprint_id |-> sprintId, type |-> artifact.type, path |-> artifact.path]
  IN IF sprintId \notin DOMAIN sprints
       THEN [result |-> Err("FOREIGN KEY constraint failed"), artifacts |-> artifacts]
       ELSE [result |-> Ok([id |-> id, sprintId |-> sprintId]),
             artifacts |-> Put(artifacts, id, row)]

\* INSERT INTO checkpoints ... JSON.stringify(checkpoint.state)
createCheckpoint(checkpoint) ==
  LET id == ids.checkpoint + 1
      row == [session_id |-> checkpoint.sessionId, sprint_id |-> checkpoint.sprintId,
              name |-> checkpoint.name, state |-> JsonState(checkpoint.state),
              created_at |-> SqlText(now)]
  IN IF checkpoint.sessionId \notin DOMAIN sessions
          \/ checkpoint.sprintId \notin DOMAIN sprints
       THEN [result |-> Err("FOREIGN KEY constraint failed"), checkpoints |-> checkpoints]
       ELSE [result |-> Ok([id |-> id]), checkpoints |-> Put(checkpoints, id, row)]

\* what the environment can do to a createCheckpoint call: nothing, a state
\* JSON.stringify throws on, or a database that throws on the INSERT
CheckpointFaults == {"none", "Converting circular structure to JSON", "disk I/O error"}

\* mutant: an INSERT that has stored its row before the database throws
createCheckpointStoringFirst(checkpoint, fault) ==
  LET r == createCheckpoint(checkpoint)
  IN IF fault = "none" THEN r
     ELSE [result |-> Err(fault), checkpoints |-> r.checkpoints]

\* createCheckpoint under a fault: an exception thrown in the try block,
\* by JSON.stringify before the INSERT runs or by the INSERT itself, is
\* returned as an error
createCheckpointUnder(checkpoint, fault) ==
  IF fault = "none" THEN createCheckpoint(checkpoint)
  ELSE [result |-> Err(fault), checkpoints |-> checkpoints]

\* SELECT * FROM checkpoints WHERE id = ?; state: JSON.parse(row.state)
loadCheckpoint(id) ==
  IF id \notin DOMAIN checkpoints
    THEN Ok(NullRow)
    ELSE Ok([id |-> id,
             sessionId |-> checkpoints[id].session_id,
             sprintId |-> checkpoints[id].sprint_id,
             name |-> checkpoints[id].name,
             state |-> checkpoints[id].state])

\* row -> Checkpoint object, as the rows.map of listCheckpoints builds it
CheckpointOfRow(id, row) ==
  [id |-> id,
   sessionId |-> row.session_id,
   sprintId |-> row.sprint_id,
   name |-> row.name,
   state |-> row.state,
   createdAt |-> DateOfText(row.created_at)]

\* the orders SELECT ... WHERE session_id = ? ORDER BY created_at DESC may
\* return the matching rows in: no row before one with a greater created_at;
\* the order of rows with equal created_at is the database's choice
ListingsOf(rows, sessionId) ==
  LET matching == {id \in DOMAIN rows : rows[id].session_id = sessionId}
  IN {l \in [1..Cardinality(matching) -> matching] :
        /\ \A i, j \in DOMAIN l : i # j => l[i] # l[j]
        /\ \A i, j \in DOMAIN l :
             i < j => ~TextLess(rows[l[i]].created_at, rows[l[j]].created_at)}

\* listCheckpoints returning the rows in the order listing
listCheckpoints(listing) ==
  Ok([i \in DOMAIN listing |-> CheckpointOfRow(listing[i], checkpoints[listing[i]])])

\* the rows the DELETE of cleanupOldSessions matches
CleanupMatches(maxAge) ==
  {s \in DOMAIN sessions :
     /\ sessions[s].status \in TerminalStatus
     /\ TextLess(sessions[s].updated_at, IsoText(now - maxAge))}

\* mutant: a delete that also purges every checkpoint
DeleteSessionsPurging(gone) ==
  LET goneSprints == {x \in DOMAIN sprints : sprints[x].session_id \in gone}
      goneArtifacts == {a \in DOMAIN artifacts : artifacts[a].sprint_id \in goneSprints}
  IN [sessions |-> Restrict(sessions, DOMAIN sessions \ gone),
      sprints |-> Restrict(sprints, DOMAIN sprints \ goneSprints),
      artifacts |-> Restrict(artifacts, DOMAIN artifacts \ goneArtifacts),
      checkpoints |-> <<>>]

\* mutant: a delete that leaves the dependent rows behind
DeleteSessionsOnly(gone) ==
  [sessions |-> Restrict(sessions, DOMAIN sessions \ gone),
   sprints |-> sprints,
   artifacts |-> artifacts,
   checkpoints |-> checkpoints]

\* DELETE FROM sessions with the schema's ON DELETE CASCADE foreign keys
DeleteSessions(gone) ==
  LET goneSprints == {x \in DOMAIN sprints : sprints[x].session_id \in gone}
      goneArtifacts == {a \in DOMAIN artifacts : artifacts[a].sprint_id \in goneSprints}
      goneCheckpoints == {c \in DOMAIN checkpoints :
                            \/ checkpoints[c].session_id \in gone
                            \/ checkpoints[c].sprint_id \in goneSprints}
  IN [sessions |-> Restrict(sessions, DOMAIN sessions \ gone),
      sprints |-> Restrict(sprints, DOMAIN sprints \ goneSprints),
      artifacts |-> Restrict(artifacts, DOMAIN artifacts \ goneArtifacts),
      checkpoints |-> Restrict(checkpoints, DOMAIN checkpoints \ goneCheckpoints)]

\* mutant: a DELETE that stops after the first matching row
cleanupOneOldSession(maxAge) ==
  LET matches == CleanupMatches(maxAge)
      gone == IF matches = {} THEN {} ELSE {CHOOSE s \in matches : TRUE}
  IN [result |-> Ok(Cardinality(gone)), tables |-> DeleteSessions(gone)]

cleanupOldSessions(maxAge) ==
  LET gone == CleanupMatches(maxAge)
  IN [result |-> Ok(Cardinality(gone)), tables |-> DeleteSessions(gone)]


(***************************************************************************)
(* The repository called directly                                          *)
(***************************************************************************)
tables == <<sessions, sprints, artifacts, checkpoints>>

SessionIdInputs == 1..MaxSessions
SprintIdInputs == 1..MaxSprints
CheckpointIdInputs == 1..MaxCheckpoints
MemoryBlobs == {"m1", "m2"}

SessionUpdateInputs == {[status |-> st] : st \in SessionStatus} \cup {<<>>}

SprintUpdateInputs ==
  {[status |-> "executing"],
   [status |-> "completed", confidence |-> 9, result |-> "success"]}

\* states handed to createCheckpoint by a direct caller: the literals of the
\* repository's tests
CheckpointStateInputs ==
  {[sprints |-> <<>>, artifacts |-> <<>>, memory |-> m, session |-> <<>>] :
     m \in MemoryBlobs}

CallCreateSession ==
  /\ ids.session < MaxSessions
  /\ LET r == createSession(DefaultMetadata) IN
       /\ sessions' = r.sessions
       /\ ids' = [ids EXCEPT !.session = @ + 1]
       /\ lastOp' = [op |-> "createSession"]
  /\ UNCHANGED <<reducerVars, engineVars, evaluatorVars, timeoutVars, migrationVars,
                 scheduleVars, dateBinding, now, sprints, artifacts,
                 checkpoints, memory, reqs, cpGiven, cancelDone>>

CallUpdateSession ==
  \E id \in SessionIdInputs, updates \in SessionUpdateInputs :
    LET r == updateSession(id, updates) IN
      /\ sessions' = r.sessions
      /\ lastOp' = [op |-> "updateSession"]
      /\ UNCHANGED <<reducerVars, engineVars, evaluatorVars, timeoutVars, migrationVars,
                     scheduleVars, dateBinding, now, ids, sprints, artifacts,
                     checkpoints, memory, reqs, cpGiven, cancelDone>>

CallCreateSprint ==
  /\ ids.sprint < MaxSprints
  /\ \E sessionId \in SessionIdInputs :
       LET r == createSprint(sessionId) IN
         /\ sprints' = r.sprints
         /\ ids' = IF r.result.kind = "ok" THEN [ids EXCEPT !.sprint = @ + 1] ELSE ids
         /\ lastOp' = [kind |-> r.result.kind, op |-> "createSprint",
                       existed |-> sessionId \in DOMAIN sessions]
  /\ UNCHANGED <<reducerVars, engineVars, evaluatorVars, timeoutVars, migrationVars,
                 scheduleVars, dateBinding, now, sessions, artifacts,
                 checkpoints, memory, reqs, cpGiven, cancelDone>>

CallUpdateSprint ==
  \E id \in SprintIdInputs, updates \in SprintUpdateInputs :
    LET r == updateSprint(id, updates) IN
      /\ sprints' = r.sprints
      /\ lastOp' = [op |-> "updateSprint"]
      /\ UNCHANGED <<reducerVars, engineVars, evaluatorVars, timeoutVars, migrationVars,
                     scheduleVars, dateBinding, now, ids, sessions,
                     artifacts, checkpoints, memory, reqs, cpGiven,
                     cancelDone>>

CallSaveArtifact ==
  /\ ids.artifact < MaxArtifacts
  /\ \E sprintId \in SprintIdInputs :
       LET r == saveArtifact(sprintId, [type |-> "file", path |-> "out"]) IN
         /\ artifacts' = r.artifacts
         /\ ids' = IF r.result.kind = "ok" THEN [ids EXCEPT !.artifact = @ + 1] ELSE ids
         /\ lastOp' = [op |-> "saveArtifact"]
  /\ UNCHANGED <<reducerVars, engineVars, evaluatorVars, timeoutVars, migrationVars,
                 scheduleVars, dateBinding, now, sessions, sprints,
                 checkpoints, memory, reqs, cpGiven, cancelDone>>

CallCreateCheckpointWithin(max) ==
  /\ ids.checkpoint < max
  /\ \E sessionId \in SessionIdInputs, sprintId \in SprintIdInputs :
       \E state \in CheckpointStateInputs, fault \in CheckpointFaults :
         LET given == [state |-> state, sessionId |-> sessionId,
                       sprintId |-> sprintId, name |-> "cp"]
             r == createCheckpointUnder(given, fault)
         IN /\ checkpoints' = r.checkpoints
            /\ ids' = IF r.result.kind = "ok"
                        THEN [ids EXCEPT !.checkpoint = @ + 1] ELSE ids
            /\ cpGiven' = IF r.result.kind = "ok"
                            THEN Put(cpGiven, r.result.value.id, given) ELSE cpGiven
            /\ lastOp' = [op |-> "createCheckpoint"]
  /\ UNCHANGED <<reducerVars, engineVars, evaluatorVars, timeoutVars, migrationVars,
                 scheduleVars, dateBinding, now, sessions, sprints,
                 artifacts, memory, reqs, cancelDone>>

CallCreateCheckpoint == CallCreateCheckpointWithin(MaxCheckpoints)

CallLoadCheckpoint ==
  \E id \in CheckpointIdInputs :
    /\ lastOp' = [kind |-> "ok", id |-> id, op |-> "loadCheckpoint",
                  loaded |-> loadCheckpoint(id).value]
    /\ UNCHANGED <<reducerVars, engineVars, evaluatorVars, timeoutVars, migrationVars,
                   scheduleVars, dateBinding, now, ids, tables, memory, reqs,
                   cpGiven, cancelDone>>

CallCleanup ==
  \E maxAge \in 0..MaxAgeInput :
    LET r == cleanupOldSessions(maxAge)
        gone == DOMAIN sessions \ DOMAIN r.tables.sessions
    IN /\ sessions' = r.tables.sessions
       /\ sprints' = r.tables.sprints
       /\ artifacts' = r.tables.artifacts
       /\ checkpoints' = r.tables.checkpoints
       /\ lastOp' = [count |-> r.result.value, op |-> "cleanup",
                     cutoff |-> now - maxAge,
                     at |-> now,
                     repeat |-> /\ lastOp.op = "cleanup"
                                /\ lastOp.at = now
                                /\ lastOp.cutoff = now - maxAge
                                /\ lastOp.count > 0,
                     deleted |-> {[id |-> g, status |-> sessions[g].status,
                                   updated |-> sessions[g].updated_at.t] : g \in gone},
                     cascaded |-> <<Cardinality(DOMAIN sprints \ DOMAIN r.tables.sprints),
                                    Cardinality(DOMAIN artifacts \ DOMAIN r.tables.artifacts),
                                    Cardinality(DOMAIN checkpoints \ DOMAIN r.tables.checkpoints)>>]
       /\ UNCHANGED <<reducerVars, engineVars, evaluatorVars, timeoutVars, migrationVars,
                      scheduleVars, dateBinding, now, ids, memory, reqs,
                      cpGiven, cancelDone>>

Tick ==
  /\ now < MaxClock
  /\ now' = now + 1
  /\ UNCHANGED <<reducerVars, engineVars, evaluatorVars, timeoutVars, migrationVars,
                 scheduleVars, dateBinding, ids, tables, memory, reqs,
                 lastOp, cpGiven, cancelDone>>

\* the answer of a status, cancel or metrics request
Answer(kind, op, session_id) ==
  [kind |-> kind, op |-> op, session_id |-> session_id]

\* handleCancel: one segment, the result of updateSession is tested with
\* (!updateResult), which is false for every Result object
HandleCancel ==
  \E session_id \in SessionIdInputs :
    LET r == updateSession(session_id,
                           [status |-> "cancelled", completedAt |-> DateV(now)])
    IN /\ sessions' = r.sessions
       /\ cancelDone' = cancelDone \cup ({session_id} \cap DOMAIN sessions)
       /\ lastOp' = Answer("ok", "cancel", session_id)
       /\ UNCHANGED <<reducerVars, engineVars, evaluatorVars, timeoutVars, migrationVars,
                      scheduleVars, dateBinding, now, ids, sprints,
                      artifacts, checkpoints, memory, reqs, cpGiven>>

InitStore(bindings) ==
  /\ ReducerIdle
  /\ dateBinding \in bindings
  /\ now = 0
  /\ ids = [session |-> 0, sprint |-> 0, artifact |-> 0, checkpoint |-> 0, request |-> 0]
  /\ sessions = <<>>
  /\ sprints = <<>>
  /\ artifacts = <<>>
  /\ checkpoints = <<>>
  /\ memory = <<>>
  /\ reqs = <<>>
  /\ lastOp = [op |-> "none"]
  /\ cpGiven = <<>>
  /\ cancelDone = {}
  /\ MigrationIdle
  /\ ScheduleIdle
  /\ EvaluatorIdle
  /\ TimeoutIdle

Next ==
  \/ CallCreateSession
  \/ CallUpdateSession
  \/ CallCreateSprint
  \/ CallSaveArtifact
  \/ CallCreateCheckpoint
  \/ CallLoadCheckpoint
  \/ CallCleanup
  \/ Tick

\* no call of this specification passes a Date object to the driver
Init == InitStore({"text"})

Spec == Init /\ [][Next]_vars

\* Several checkpoints of a session, listed
MaxListed == 2

CallListCheckpoints ==
  \E sessionId \in SessionIdInputs :
    \E listing \in ListingsOf(checkpoints, sessionId) :
      /\ lastOp' = [kind |-> "ok", value |-> listCheckpoints(listing).value,
                    op |-> "listCheckpoints",
                    sessionId |-> sessionId]
      /\ UNCHANGED <<reducerVars, engineVars, evaluatorVars, timeoutVars, migrationVars,
                     scheduleVars, dateBinding, now, ids, tables, memory, reqs,
                     cpGiven, cancelDone>>

NextCheckpoints ==
  \/ CallCreateSession
  \/ CallCreateSprint
  \/ CallCreateCheckpointWithin(MaxListed)
  \/ CallListCheckpoints
  \/ Tick

SpecCheckpoints == Init /\ [][NextCheckpoints]_vars

(***************************************************************************)
(* MCPHandlers: the control API.  A handler runs until its next await; the *)
(* repository methods hold no await, so each call of one is part of the    *)
(* segment that makes it.  Requests in flight are the frames of reqs.      *)
(***************************************************************************)
MaxRequests == 3
MaxApiSessions == 1

InitializedMemory == "initialized"
EmptyMemory == "empty"

\* what claudeFlow.runSwarm resolves to: err, or ok with the process's outcome
SwarmResultInputs ==
  {Err("swarm"),
   Ok([completed |-> FALSE, success |-> FALSE, successWord |-> FALSE,
       errorWord |-> TRUE, failedWord |-> FALSE]),
   Ok([completed |-> TRUE, success |-> TRUE, successWord |-> TRUE,
       errorWord |-> FALSE, failedWord |-> FALSE])}

Max(a, b) == IF a > b THEN a ELSE b
Min(a, b) == IF a < b THEN a ELSE b

\* mutant: the score of the output text alone
calculateConfidenceOfText(result) ==
  Max(0, Min(10, 5 + (IF result.completed THEN 2 ELSE 0)
                   + (IF result.successWord THEN 2 ELSE 0)
                   - (IF result.errorWord \/ result.failedWord THEN 3 ELSE 0)))

\* confidence in tenths; completed, successWord, errorWord and failedWord
\* say whether the lower-cased output includes 'completed', 'success',
\* 'error' and 'failed'
calculateConfidence(result) ==
  IF ~result.success THEN 0
  ELSE Max(0, Min(10, 5 + (IF result.completed THEN 2 ELSE 0)
                        + (IF result.successWord THEN 2 ELSE 0)
                        - (IF result.errorWord \/ result.failedWord THEN 3 ELSE 0)))

\* reqs is the bag of the frames of the requests in flight
Frame(handler, pc, session_id, session, afterCancel) ==
  [sprints |-> <<>>, confidence |-> 0, pc |-> pc, session |-> session,
   sprint |-> 0, session_id |-> session_id, handler |-> handler, afterCancel |-> afterCancel]

Started(bag, f) ==
  IF f \in DOMAIN bag THEN [bag EXCEPT ![f] = @ + 1] ELSE Put(bag, f, 1)

Finished(bag, f) ==
  IF bag[f] > 1 THEN [bag EXCEPT ![f] = @ - 1] ELSE Restrict(bag, DOMAIN bag \ {f})

Resumed(f, g) == Started(Finished(reqs, f), g)

NoOp == [op |-> "none"]

\* the answer of a checkpoint request: the kind of its Result and, for an
\* error, the message
CheckpointAnswer(kind, session_id, reason) ==
  [kind |-> kind, reason |-> reason, op |-> "checkpoint", session_id |-> session_id]

\* confidence_threshold = 0.8 in the destructuring of params: the default
\* replaces an absent parameter only
ThresholdOfParams(params) ==
  IF "confidence_threshold" \in DOMAIN params
    THEN params.confidence_threshold
    ELSE DefaultMetadata.confidence_threshold

\* max_sprints = 10 in the destructuring of params
MaxSprintsOfParams(params) ==
  IF "max_sprints" \in DOMAIN params
    THEN params.max_sprints
    ELSE DefaultMetadata.max_sprints

\* handleInit: createSession with the parameters as metadata, then
\* memory.storeSwarmState, whose outcome is the external process's and is
\* not looked at
HandleInitWith(inputs) ==
  /\ ids.session < MaxApiSessions
  /\ \E params \in inputs :
       LET r == createSession([confidence_threshold |-> ThresholdOfParams(params),
                               max_sprints |-> MaxSprintsOfParams(params)])
       IN /\ sessions' = r.sessions
          /\ ids' = [ids EXCEPT !.session = @ + 1]
          /\ \E stored \in BOOLEAN :
               memory' = IF stored
                           THEN Put(memory, r.result.value.id, InitializedMemory)
                           ELSE memory
          /\ lastOp' = NoOp
  /\ UNCHANGED <<reducerVars, engineVars, evaluatorVars, timeoutVars, migrationVars,
                 scheduleVars, dateBinding, now, sprints, artifacts,
                 checkpoints, reqs, cpGiven, cancelDone>>

\* an init request that gives the task only
TaskOnly == [task |-> "task"]

HandleInit == HandleInitWith({TaskOnly})

\* session.metadata['confidence_threshold'] as number || 0.8
ThresholdOfSession(session) ==
  IF session.metadata.confidence_threshold = 0
    THEN 8
    ELSE session.metadata.confidence_threshold

\* should_continue of the sprint result
ShouldContinue(confidence, session) ==
  confidence < ThresholdOfSession(session)

\* handleSprint up to its first await: getSession.  The two checks that
\* follow read only the snapshot, so their outcome is fixed here.
SprintGetSession ==
  /\ ids.request < MaxRequests
  /\ \E session_id \in SessionIdInputs :
       LET session == getSession(session_id).value
           afterCancel == session_id \in cancelDone
       IN IF session = NullRow \/ session.status # "active"
            THEN /\ lastOp' = [kind |-> "err", op |-> "sprint",
                               session_id |-> session_id,
                               afterCancel |-> afterCancel]
                 /\ UNCHANGED <<reqs, ids>>
            ELSE /\ reqs' = Started(reqs, Frame("sprint", "create", session_id,
                                                session, afterCancel))
                 /\ ids' = [ids EXCEPT !.request = @ + 1]
                 /\ lastOp' = NoOp
  /\ UNCHANGED <<reducerVars, engineVars, evaluatorVars, timeoutVars, migrationVars,
                 scheduleVars, dateBinding, now, tables, memory, cpGiven,
                 cancelDone>>

\* createSprint; an err result is returned
SprintCreate ==
  \E f \in DOMAIN reqs :
    /\ f.handler = "sprint"
    /\ f.pc = "create"
    /\ LET c == createSprint(f.session_id) IN
         /\ sprints' = c.sprints
         /\ ids' = IF c.result.kind = "ok" THEN [ids EXCEPT !.sprint = @ + 1] ELSE ids
         /\ reqs' = IF c.result.kind = "ok"
                      THEN Resumed(f, [f EXCEPT !.pc = "mark",
                                                !.sprint = c.result.value.id])
                      ELSE Finished(reqs, f)
         /\ lastOp' = [kind |-> c.result.kind, op |-> "createSprint",
                       existed |-> f.session_id \in DOMAIN sessions]
    /\ UNCHANGED <<reducerVars, engineVars, evaluatorVars, timeoutVars, migrationVars,
                   scheduleVars, dateBinding, now, sessions, artifacts,
                   checkpoints, memory, cpGiven, cancelDone>>

\* updateSprint(sprint.id, { status: 'executing' }), result not looked at;
\* then the swarm is started
SprintMarkExecuting ==
  \E f \in DOMAIN reqs :
    /\ f.handler = "sprint"
    /\ f.pc = "mark"
    /\ sprints' = updateSprint(f.sprint, [status |-> "executing"]).sprints
    /\ reqs' = Resumed(f, [f EXCEPT !.pc = "swarm"])
    /\ lastOp' = NoOp
    /\ UNCHANGED <<reducerVars, engineVars, evaluatorVars, timeoutVars, migrationVars,
                   scheduleVars, dateBinding, now, ids, sessions, artifacts,
                   checkpoints, memory, cpGiven, cancelDone>>

\* the swarm has ended: the sprint row is marked failed and the err returned,
\* or it is marked completed with the confidence of the outcome
SprintRecord ==
  \E f \in DOMAIN reqs, swarmResult \in SwarmResultInputs :
    /\ f.handler = "sprint"
    /\ f.pc = "swarm"
    /\ IF swarmResult.kind = "err"
         THEN /\ sprints' = updateSprint(f.sprint,
                                         [status |-> "failed",
                                          completedAt |-> DateV(now)]).sprints
              /\ reqs' = Finished(reqs, f)
              /\ lastOp' = [kind |-> "err", op |-> "sprint",
                            session_id |-> f.session_id,
                            afterCancel |-> f.afterCancel]
         ELSE LET confidence == calculateConfidence(swarmResult.value) IN
              /\ sprints' = updateSprint(f.sprint,
                                         [status |-> "completed",
                                          confidence |-> confidence,
                                          result |-> "success",
                                          completedAt |-> DateV(now)]).sprints
              /\ reqs' = Resumed(f, [f EXCEPT !.pc = "count",
                                              !.confidence = confidence])
              /\ lastOp' = NoOp
    /\ UNCHANGED <<reducerVars, engineVars, evaluatorVars, timeoutVars, migrationVars,
                   scheduleVars, dateBinding, now, ids, sessions, artifacts,
                   checkpoints, memory, cpGiven, cancelDone>>

\* updateSession(session_id, { sprintCount: session.sprintCount + 1,
\* confidenceLevel }) with the session read at the start, then ok
SprintCount ==
  \E f \in DOMAIN reqs :
    /\ f.handler = "sprint"
    /\ f.pc = "count"
    /\ sessions' = updateSession(f.session_id,
                                 [sprintCount |-> f.session.sprintCount + 1,
                                  confidenceLevel |-> f.confidence]).sessions
    /\ reqs' = Finished(reqs, f)
    /\ lastOp' = [kind |-> "ok", confidence |-> f.confidence, op |-> "sprint",
                  session_id |-> f.session_id, afterCancel |-> f.afterCancel,
                  should_continue |-> ShouldContinue(f.confidence, f.session)]
    /\ UNCHANGED <<reducerVars, engineVars, evaluatorVars, timeoutVars, migrationVars,
                   scheduleVars, dateBinding, now, ids, sprints, artifacts,
                   checkpoints, memory, cpGiven, cancelDone>>

\* handleCheckpoint up to its first await: getSession
CheckpointGetSession ==
  /\ ids.request < MaxRequests
  /\ ids.checkpoint < MaxCheckpoints
  /\ \E session_id \in SessionIdInputs :
       LET session == getSession(session_id).value IN
       IF session = NullRow
         THEN /\ lastOp' = CheckpointAnswer("err", session_id, "Session not found")
              /\ UNCHANGED <<reqs, ids>>
         ELSE /\ reqs' = Started(reqs, Frame("checkpoint", "sprints", session_id,
                                             session, FALSE))
              /\ ids' = [ids EXCEPT !.request = @ + 1]
              /\ lastOp' = NoOp
  /\ UNCHANGED <<reducerVars, engineVars, evaluatorVars, timeoutVars, migrationVars,
                 scheduleVars, dateBinding, now, tables, memory, cpGiven,
                 cancelDone>>

\* getSprintsBySession; without a sprint the request fails
CheckpointGetSprints ==
  \E f \in DOMAIN reqs :
    /\ f.handler = "checkpoint"
    /\ f.pc = "sprints"
    /\ LET found == getSprintsBySession(f.session_id) IN
         /\ reqs' = IF found = <<>>
                      THEN Finished(reqs, f)
                      ELSE Resumed(f, [f EXCEPT !.pc = "create", !.sprints = found])
         /\ lastOp' = IF found = <<>>
                        THEN CheckpointAnswer("err", f.session_id,
                                              "No sprints found in session")
                        ELSE NoOp
    /\ UNCHANGED <<reducerVars, engineVars, evaluatorVars, timeoutVars, migrationVars,
                   scheduleVars, dateBinding, now, ids, tables, memory,
                   cpGiven, cancelDone>>

\* memory.getSwarmState has answered (an err is replaced by {}), then
\* createCheckpoint with the session and the sprints read before
CheckpointCreate ==
  \E f \in DOMAIN reqs, retrieved \in BOOLEAN, fault \in CheckpointFaults :
    /\ f.handler = "checkpoint"
    /\ f.pc = "create"
    /\ ids.checkpoint < MaxCheckpoints
    /\ LET found == f.sprints
           given == [state |-> [sprints |-> found,
                                artifacts |-> <<>>,
                                memory |-> IF retrieved /\ f.session_id \in DOMAIN memory
                                             THEN memory[f.session_id]
                                             ELSE EmptyMemory,
                                session |-> f.session],
                     sessionId |-> f.session_id,
                     sprintId |-> found[Len(found)].id,
                     name |-> "cp"]
           c == createCheckpointUnder(given, fault)
       IN /\ checkpoints' = c.checkpoints
          /\ ids' = IF c.result.kind = "ok"
                      THEN [ids EXCEPT !.checkpoint = @ + 1] ELSE ids
          /\ cpGiven' = IF c.result.kind = "ok"
                          THEN Put(cpGiven, c.result.value.id, given) ELSE cpGiven
          /\ lastOp' = CheckpointAnswer(c.result.kind, f.session_id,
                                        IF c.result.kind = "ok" THEN "" ELSE c.result.error)
    /\ reqs' = Finished(reqs, f)
    /\ UNCHANGED <<reducerVars, engineVars, evaluatorVars, timeoutVars, migrationVars,
                   scheduleVars, dateBinding, now, sessions, sprints,
                   artifacts, memory, cancelDone>>

\* mutant: a restore that writes the snapshot back to the live session
HandleRestoreWritingBack ==
  \E checkpoint_id \in CheckpointIdInputs :
    LET checkpoint == loadCheckpoint(checkpoint_id).value IN
    /\ IF checkpoint = NullRow
         THEN /\ lastOp' = [kind |-> "err", op |-> "restore"]
              /\ UNCHANGED <<memory, sessions>>
         ELSE /\ memory' = memory
              /\ sessions' = updateSession(checkpoint.sessionId,
                                 [sprintCount |-> checkpoint.state.session.sprintCount]).sessions
              /\ lastOp' = [kind |-> "ok", id |-> checkpoint_id, state |-> checkpoint.state,
                            op |-> "restore"]
    /\ UNCHANGED <<reducerVars, engineVars, evaluatorVars, timeoutVars, migrationVars,
                   scheduleVars, dateBinding, now, ids, sprints, artifacts,
                   checkpoints, reqs, cpGiven, cancelDone>>

\* handleRestore: loadCheckpoint, then memory.storeSwarmState with the
\* checkpoint's memory (every memory value a checkpoint holds is truthy);
\* the answer carries checkpoint.state
HandleRestore ==
  \E checkpoint_id \in CheckpointIdInputs :
    LET checkpoint == loadCheckpoint(checkpoint_id).value IN
    /\ IF checkpoint = NullRow
         THEN /\ lastOp' = [kind |-> "err", op |-> "restore"]
              /\ UNCHANGED memory
         ELSE /\ \E stored \in BOOLEAN :
                   memory' = IF stored
                               THEN Put(memory, checkpoint.sessionId,
                                        checkpoint.state.memory)
                               ELSE memory
              /\ lastOp' = [kind |-> "ok", id |-> checkpoint_id, state |-> checkpoint.state,
                            op |-> "restore"]
    /\ UNCHANGED <<reducerVars, engineVars, evaluatorVars, timeoutVars, migrationVars,
                   scheduleVars, dateBinding, now, ids, tables, reqs,
                   cpGiven, cancelDone>>

\* handleStatus up to its first await: getSession.  A null session is an
\* err; without verbose the response is built from the snapshot and returned
HandleStatus ==
  /\ ids.request < MaxRequests
  /\ \E session_id \in SessionIdInputs, verbose \in BOOLEAN :
       LET session == getSession(session_id).value IN
       IF session = NullRow
         THEN /\ lastOp' = Answer("err", "status", session_id)
              /\ UNCHANGED <<reqs, ids>>
         ELSE IF ~verbose
           THEN /\ lastOp' = Answer("ok", "status", session_id)
                /\ UNCHANGED <<reqs, ids>>
           ELSE /\ reqs' = Started(reqs, Frame("status", "sprints", session_id,
                                               session, FALSE))
                /\ ids' = [ids EXCEPT !.request = @ + 1]
                /\ lastOp' = NoOp
  /\ UNCHANGED <<reducerVars, engineVars, evaluatorVars, timeoutVars, migrationVars,
                 scheduleVars, dateBinding, now, tables, memory, cpGiven,
                 cancelDone>>

\* verbose: getSprintsBySession, whose list is attached to the response
StatusGetSprints ==
  \E f \in DOMAIN reqs :
    /\ f.handler = "status"
    /\ f.pc = "sprints"
    /\ reqs' = Finished(reqs, f)
    /\ lastOp' = Answer("ok", "status", f.session_id)
    /\ UNCHANGED <<reducerVars, engineVars, evaluatorVars, timeoutVars, migrationVars,
                   scheduleVars, dateBinding, now, ids, tables, memory,
                   cpGiven, cancelDone>>

\* handleMetrics up to its first await: getSession, whose Result is only
\* tested with isOk; its value is never read
MetricsGetSession ==
  /\ ids.request < MaxRequests
  /\ \E session_id \in SessionIdInputs :
       /\ getSession(session_id).kind = "ok"
       /\ reqs' = Started(reqs, Frame("metrics", "sprints", session_id,
                                      NullRow, FALSE))
       /\ ids' = [ids EXCEPT !.request = @ + 1]
       /\ lastOp' = NoOp
  /\ UNCHANGED <<reducerVars, engineVars, evaluatorVars, timeoutVars, migrationVars,
                 scheduleVars, dateBinding, now, tables, memory, cpGiven,
                 cancelDone>>

\* getSprintsBySession, then the metrics are computed from the list; the
\* resource metrics awaited afterwards are only attached to them
MetricsGetSprints ==
  \E f \in DOMAIN reqs :
    /\ f.handler = "metrics"
    /\ f.pc = "sprints"
    /\ reqs' = Finished(reqs, f)
    /\ lastOp' = [kind |-> "ok", op |-> "metrics", session_id |-> f.session_id,
                  total_sprints |-> Len(getSprintsBySession(f.session_id))]
    /\ UNCHANGED <<reducerVars, engineVars, evaluatorVars, timeoutVars, migrationVars,
                   scheduleVars, dateBinding, now, ids, tables, memory,
                   cpGiven, cancelDone>>

\* StateCleanup.cleanup as the interval timer runs it
ScheduledCleanup == CallCleanup

NextApi ==
  \/ HandleInit
  \/ SprintGetSession
  \/ SprintCreate
  \/ SprintMarkExecuting
  \/ SprintRecord
  \/ SprintCount
  \/ CheckpointGetSession
  \/ CheckpointGetSprints
  \/ CheckpointCreate
  \/ HandleRestore
  \/ HandleCancel
  \/ HandleStatus
  \/ StatusGetSprints
  \/ MetricsGetSession
  \/ MetricsGetSprints
  \/ ScheduledCleanup

\* whether the driver turns a Date parameter into text or rejects it is a
\* property of the runtime: both are admitted
InitApi == InitStore({"text", "TypeError"})

SpecApi == InitApi /\ [][NextApi]_vars

\* Sprint requests on sessions initialised with or without a threshold
ThresholdValues == {0, 5, 10}
InitParamInputs ==
  {TaskOnly} \cup {[task |-> "task", confidence_threshold |-> t] : t \in ThresholdValues}

NextSprint ==
  \/ HandleInitWith(InitParamInputs)
  \/ SprintGetSession
  \/ SprintCreate
  \/ SprintMarkExecuting
  \/ SprintRecord
  \/ SprintCount

SpecSprint == InitApi /\ [][NextSprint]_vars

\* Sprint requests on sessions initialised with a limit on their sprints
SprintLimits == {1, 2}
LimitParamInputs == {[task |-> "task", max_sprints |-> n] : n \in SprintLimits}

NextLimit ==
  \/ HandleInitWith(LimitParamInputs)
  \/ SprintGetSession
  \/ SprintCreate
  \/ SprintMarkExecuting
  \/ SprintRecord
  \/ SprintCount

SpecLimit == Init /\ [][NextLimit]_vars

\* The same requests with a driver that stores every Date given to it
SpecOverlap == Init /\ [][NextSprint]_vars

\* Checkpoint requests on sessions whose sprints have artifacts saved
NextArtifacts ==
  \/ HandleInit
  \/ CallCreateSprint
  \/ CallSaveArtifact
  \/ CheckpointGetSession
  \/ CheckpointGetSprints
  \/ CheckpointCreate

SpecArtifacts == Init /\ [][NextArtifacts]_vars

(***************************************************************************)
(* Migration runner (state/migrations.ts)                                  *)
(***************************************************************************)
MaxVersion == 3
MaxMigrations == 2
MaxRuns == 2

\* a migration's DDL is a script of statements: "create" makes one schema
\* object (CREATE ... IF NOT EXISTS, as schema.sql does), "invalid" is a
\* statement the database rejects
Scripts == {<<"create", "create">>, <<"create", "invalid">>}
MigrationInputs == {[version |-> v, up |-> u] : v \in 1..MaxVersion, u \in Scripts}
MigrationLists == UNION {[1..n -> MigrationInputs] : n \in 0..MaxMigrations}
NoMigration == [version |-> 0, up |-> <<>>]

\* runner.initialize: CREATE TABLE IF NOT EXISTS migrations
initialize == [ledger EXCEPT !.exists = TRUE]

\* mutant: a version query that always answers 0
getCurrentVersionOfEmpty ==
  IF ~ledger.exists THEN Err("Failed to get current version") ELSE Ok(0)

\* SELECT MAX(version) FROM migrations, 0 for an empty table
getCurrentVersion ==
  IF ~ledger.exists
    THEN Err("Failed to get current version")
    ELSE Ok(IF ledger.rows = {} THEN 0
            ELSE CHOOSE v \in ledger.rows : \A w \in ledger.rows : w <= v)

\* db.exec(migration.up) from statement i on: the statements take effect one
\* by one until one is rejected
RECURSIVE ExecFrom(_, _, _)
ExecFrom(objects, migration, i) ==
  IF i > Len(migration.up)
    THEN [schema |-> objects, kind |-> "ok"]
  ELSE IF migration.up[i] = "invalid"
    THEN [schema |-> objects, kind |-> "err"]
  ELSE ExecFrom(objects \cup {<<migration.version, i>>}, migration, i + 1)

\* mutant: the DDL and the ledger insert without the transaction around them
applyMigrationUnprotected(migration) ==
  LET done == ExecFrom(schema, migration, 1)
  IN IF done.kind = "ok" /\ migration.version \notin ledger.rows
       THEN [ledger |-> [ledger EXCEPT !.rows = @ \cup {migration.version}],
             schema |-> done.schema,
             result |-> Ok(Undefined)]
       ELSE [ledger |-> ledger,
             schema |-> done.schema, result |-> Err("Failed to apply migration")]

\* applyMigration: db.transaction(exec DDL; INSERT INTO migrations); the
\* insert violates the primary key when the version is in the ledger, and
\* any exception rolls the whole transaction back
applyMigration(migration) ==
  LET done == ExecFrom(schema, migration, 1)
  IN IF done.kind = "ok" /\ migration.version \notin ledger.rows
       THEN [ledger |-> [ledger EXCEPT !.rows = @ \cup {migration.version}],
             schema |-> done.schema,
             result |-> Ok(Undefined)]
       ELSE [ledger |-> ledger,
             schema |-> schema, result |-> Err("Failed to apply migration")]

\* Array.prototype.sort((a, b) => a.version - b.version): stable, ascending
RECURSIVE SortByVersion(_)
SortByVersion(list) ==
  IF list = <<>> THEN <<>>
  ELSE LET last == list[Len(list)]
           front == SortByVersion(SubSeq(list, 1, Len(list) - 1))
           k == Cardinality({i \in 1..Len(front) : front[i].version <= last.version})
       IN SubSeq(front, 1, k) \o <<last>> \o SubSeq(front, k + 1, Len(front))

\* migrations.filter(m => m.version > currentVersion).sort(...)
Pending(list, currentVersion) ==
  LET newer(m) == m.version > currentVersion
  IN SortByVersion(SelectSeq(list, newer))

\* a migrate call: its argument, the version it read, what it has applied,
\* the migration it failed on, what it has still to apply and its result;
\* repeat tells that a call with the same argument had returned ok before
RunFrame(pc, list, currentVersion, result, repeat) ==
  [pc |-> pc, result |-> result, failed |-> NoMigration,
   repeat |-> repeat, list |-> list, currentVersion |-> currentVersion,
   applied |-> <<>>, pending |-> <<>>]

RunnerInitialize ==
  /\ ledger' = initialize
  /\ UNCHANGED <<reducerVars, engineVars, evaluatorVars, timeoutVars, storeVars,
                 scheduleVars, schema, runs>>

\* migrate up to its first await: getCurrentVersion
MigrateRead ==
  /\ Len(runs) < MaxRuns
  /\ \E list \in MigrationLists :
       LET versionResult == getCurrentVersion
           repeat == \E r \in 1..Len(runs) :
                       runs[r].list = list /\ runs[r].result = "ok"
       IN runs' = Append(runs,
                    IF versionResult.kind = "err"
                      THEN RunFrame("done", list, 0, "err", repeat)
                      ELSE RunFrame("read", list, versionResult.value, "none", repeat))
  /\ UNCHANGED <<reducerVars, engineVars, evaluatorVars, timeoutVars, storeVars,
                 scheduleVars, ledger, schema>>

\* migrate from one await to the next: the pending list is built after the
\* first, then each resumption checks the last result and applies the next
\* pending migration, or returns
MigrateStep ==
  \E r \in 1..Len(runs) :
    LET run == runs[r]
        pending == IF run.pc = "read"
                     THEN Pending(run.list, run.currentVersion) ELSE run.pending
    IN /\ run.pc \in {"read", "applying"}
       /\ IF pending = <<>>
            THEN /\ runs' = [runs EXCEPT ![r].pc = "done", ![r].result = "ok"]
                 /\ UNCHANGED <<ledger, schema>>
            ELSE LET result == applyMigration(Head(pending))
                 IN /\ ledger' = result.ledger
                    /\ schema' = result.schema
                    /\ runs' = IF result.result.kind = "ok"
                                 THEN [runs EXCEPT ![r].pc = "applying",
                                                   ![r].applied = Append(@, Head(pending)),
                                                   ![r].pending = Tail(pending)]
                                 ELSE [runs EXCEPT ![r].pc = "done",
                                                   ![r].failed = Head(pending),
                                                   ![r].pending = Tail(pending),
                                                   ![r].result = "err"]
       /\ UNCHANGED <<reducerVars, engineVars, evaluatorVars, timeoutVars, storeVars,
                      scheduleVars>>

NextMigrate ==
  \/ RunnerInitialize
  \/ MigrateRead
  \/ MigrateStep

InitMigrate == InitStore({"text"})

SpecMigrate == InitMigrate /\ [][NextMigrate]_vars

(***************************************************************************)
(* Scheduled cleanup (state/cleanup.ts)                                    *)
(***************************************************************************)
MaxCycles == 3

\* DEFAULT_OPTIONS.maxSessionAge: 7 days, in ticks
DefaultMaxSessionAge == 7 * TicksPerDay

\* a cycle in flight: where it waits, the Result it waits with, and how many
\* failures had been logged when it began
CycleFrame(pc, kind, after) == [kind |-> kind, pc |-> pc, after |-> after]

\* mutant: a callback that clears the interval when a cycle fails
AfterCycleStopping(kind) ==
  IF kind = "err"
    THEN [schedule EXCEPT !.failed = @ + 1, !.timer = "cleared"]
    ELSE schedule

\* the callback after await this.cleanup(): a failure is logged, that is all
AfterCycle(kind) ==
  IF kind = "err" THEN [schedule EXCEPT !.failed = @ + 1] ELSE schedule

\* scheduleCleanup: setInterval
ScheduleCleanup ==
  /\ schedule.timer = "none"
  /\ schedule' = [schedule EXCEPT !.timer = "active"]
  /\ UNCHANGED <<reducerVars, engineVars, evaluatorVars, timeoutVars, migrationVars,
                 storeVars, cycles>>

\* the returned function: clearInterval
CancelSchedule ==
  /\ schedule.timer = "active"
  /\ schedule' = [schedule EXCEPT !.timer = "cleared"]
  /\ UNCHANGED <<reducerVars, engineVars, evaluatorVars, timeoutVars, migrationVars,
                 storeVars, cycles>>

\* the timer fires: the callback enters cleanup, which runs
\* cleanupOldSessions up to its await; the DELETE succeeds, or the database
\* throws and the repository returns the error
TimerFire ==
  /\ schedule.timer = "active"
  /\ schedule.started < MaxCycles
  /\ \E throws \in BOOLEAN :
       LET r == cleanupOldSessions(DefaultMaxSessionAge)
           kind == IF throws THEN "err" ELSE r.result.kind
       IN /\ sessions' = IF throws THEN sessions ELSE r.tables.sessions
          /\ sprints' = IF throws THEN sprints ELSE r.tables.sprints
          /\ artifacts' = IF throws THEN artifacts ELSE r.tables.artifacts
          /\ checkpoints' = IF throws THEN checkpoints ELSE r.tables.checkpoints
          /\ cycles' = Started(cycles, CycleFrame("deleted", kind, schedule.failed))
  /\ schedule' = [schedule EXCEPT !.started = @ + 1]
  /\ UNCHANGED <<reducerVars, engineVars, evaluatorVars, timeoutVars, migrationVars,
                 dateBinding, now, ids, memory, reqs, lastOp, cpGiven,
                 cancelDone>>

\* cleanup resumes with the result of cleanupOldSessions: an error is
\* returned to the callback, otherwise vacuum runs up to its await
CycleVacuum ==
  \E f \in DOMAIN cycles :
    /\ f.pc = "deleted"
    /\ IF f.kind = "err"
         THEN /\ cycles' = Finished(cycles, f)
              /\ schedule' = AfterCycle(f.kind)
         ELSE /\ \E throws \in BOOLEAN :
                   cycles' = Started(Finished(cycles, f),
                               CycleFrame("vacuumed", IF throws THEN "err" ELSE "ok",
                                          f.after))
              /\ UNCHANGED schedule
    /\ UNCHANGED <<reducerVars, engineVars, evaluatorVars, timeoutVars, migrationVars,
                   storeVars>>

\* cleanup resumes with the result of vacuum and returns to the callback
CycleEnd ==
  \E f \in DOMAIN cycles :
    /\ f.pc = "vacuumed"
    /\ cycles' = Finished(cycles, f)
    /\ schedule' = AfterCycle(f.kind)
    /\ UNCHANGED <<reducerVars, engineVars, evaluatorVars, timeoutVars, migrationVars,
                   storeVars>>

NextSchedule ==
  \/ ScheduleCleanup
  \/ CancelSchedule
  \/ TimerFire
  \/ CycleVacuum
  \/ CycleEnd

InitSchedule == InitStore({"text"})

SpecSchedule == InitSchedule /\ [][NextSchedule]_vars

\* an active interval timer keeps firing and the event loop resumes every
\* callback whose awaited promise has settled
FairSpecSchedule ==
  /\ SpecSchedule
  /\ WF_vars(TimerFire)
  /\ WF_vars(CycleVacuum)
  /\ WF_vars(CycleEnd)

(***************************************************************************)
(* Confidence evaluator (types/confidence.ts): calculateConfidence over    *)
(* factors and weights.  A number is a ratio n/d in lowest terms with      *)
(* d >= 0; d = 0 gives the values a division by zero produces: 1/0 is      *)
(* Infinity, -1/0 is -Infinity and 0/0 is NaN.  Rounding is not modelled.  *)
(***************************************************************************)
Sign(x) == IF x > 0 THEN 1 ELSE IF x < 0 THEN 0 - 1 ELSE 0
Abs(x) == IF x < 0 THEN 0 - x ELSE x

RECURSIVE Gcd(_, _)
Gcd(a, b) == IF b = 0 THEN a ELSE Gcd(b, a % b)

Ratio(n, d) ==
  IF d = 0
    THEN [n |-> Sign(n), d |-> 0]
    ELSE LET g == Gcd(Abs(n), Abs(d))
         IN [n |-> (Sign(d) * n) \div g, d |-> Abs(d) \div g]

Zero == Ratio(0, 1)
One == Ratio(1, 1)
NotANumber == Ratio(0, 0)
IsNaN(x) == x = NotANumber
IsFinite(x) == x.d > 0

\* a + b: Infinity + Infinity is Infinity, Infinity - Infinity is NaN
Plus(a, b) ==
  IF a.d = 0 /\ b.d = 0
    THEN IF a.n = b.n THEN a ELSE NotANumber
    ELSE Ratio(a.n * b.d + b.n * a.d, a.d * b.d)

\* a * b: 0 * Infinity is NaN
Times(a, b) == Ratio(a.n * b.n, a.d * b.d)

\* a / b: x / 0 is Infinity with the sign of x, 0 / 0 is NaN
Over(a, b) ==
  Times(a, IF b.n < 0 THEN Ratio(0 - b.d, 0 - b.n) ELSE Ratio(b.d, b.n))

\* a < b, false when either is NaN
LessThan(a, b) ==
  /\ ~IsNaN(a)
  /\ ~IsNaN(b)
  /\ IF a.d = 0 /\ b.d = 0 THEN a.n < b.n ELSE a.n * b.d < b.n * a.d

\* Math.min and Math.max return NaN when an argument is NaN
MathMin(a, b) ==
  IF IsNaN(a) \/ IsNaN(b) THEN NotANumber ELSE IF LessThan(b, a) THEN b ELSE a
MathMax(a, b) ==
  IF IsNaN(a) \/ IsNaN(b) THEN NotANumber ELSE IF LessThan(a, b) THEN b ELSE a

\* the keys of ConfidenceFactors, in the order of the interface
FactorKeys ==
  <<"successRate", "consensusLevel", "resourceUtilization", "progressRate",
    "errorRate", "complexity", "experience">>
FactorKeySet == {FactorKeys[i] : i \in 1..Len(FactorKeys)}

DEFAULT_CONFIDENCE_WEIGHTS ==
  [successRate |-> Ratio(25, 100), consensusLevel |-> Ratio(20, 100),
   resourceUtilization |-> Ratio(10, 100), progressRate |-> Ratio(15, 100),
   errorRate |-> Ratio(15, 100), complexity |-> Ratio(10, 100),
   experience |-> Ratio(5, 100)]

\* Object.values(weights).reduce((sum, w) => sum + w, 0) over the first i keys
RECURSIVE SumOfWeights(_, _)
SumOfWeights(weights, i) ==
  IF i = 0 THEN Zero
  ELSE Plus(SumOfWeights(weights, i - 1), weights[FactorKeys[i]])

\* Object.entries(factors).reduce((sum, [key, value]) =>
\*   sum + value * normalizedWeights[key], 0) over the first i keys
RECURSIVE WeightedSum(_, _, _)
WeightedSum(factors, normalizedWeights, i) ==
  IF i = 0 THEN Zero
  ELSE Plus(WeightedSum(factors, normalizedWeights, i - 1),
            Times(factors[FactorKeys[i]], normalizedWeights[FactorKeys[i]]))

\* mutant: the weights used as given, without normalisation
calculateConfidenceUnnormalized(factors, weights) ==
  LET value == WeightedSum(factors, weights, Len(FactorKeys))
  IN [value |-> MathMax(Zero, MathMin(One, value)), weights |-> weights]

\* calculateConfidence(factors, weights) of types/confidence.ts; the record
\* holds the value and metadata.weights of the ConfidenceScore
calculateConfidenceOfFactors(factors, weights) ==
  LET totalWeight == SumOfWeights(weights, Len(FactorKeys))
      normalizedWeights == [key \in FactorKeySet |-> Over(weights[key], totalWeight)]
      value == WeightedSum(factors, normalizedWeights, Len(FactorKeys))
  IN [value |-> MathMax(Zero, MathMin(One, value)), weights |-> normalizedWeights]

\* inputs: the first three factors (weights) vary one by one, the other four
\* share one value; factor values are in tenths and reach outside [0,1]
FactorValues == {Ratio(x, 10) : x \in {0 - 5, 0, 5, 10, 20}}
WeightValues == {Ratio(w, 1) : w \in {0 - 1, 0, 1, 2}}

Vector(a, b, c, rest) ==
  [key \in FactorKeySet |->
     CASE key = "successRate" -> a
       [] key = "consensusLevel" -> b
       [] key = "resourceUtilization" -> c
       [] OTHER -> rest]

Vectors(values) == {Vector(a, b, c, rest) : a \in values, b \in values,
                                            c \in values, rest \in values}

FactorInputs == Vectors(FactorValues)
WeightInputs == Vectors(WeightValues) \cup {DEFAULT_CONFIDENCE_WEIGHTS}

\* what the outcome-based calculateConfidence of the control API is given:
\* the success flag and an output text with or without each indicator
OutcomeInputs ==
  {[completed |-> c, success |-> s, successWord |-> w, errorWord |-> e,
    failedWord |-> f] : s \in BOOLEAN, c \in BOOLEAN, w \in BOOLEAN,
                         e \in BOOLEAN, f \in BOOLEAN}

\* a call of one of the evaluators has been made with these arguments
InitEvaluate ==
  /\ ReducerIdle
  /\ StoreIdle
  /\ TimeoutIdle
  /\ \/ evaluation \in {[pc |-> "called", of |-> "factors", weights |-> w,
                         factors |-> f] : f \in FactorInputs, w \in WeightInputs}
     \/ evaluation \in {[pc |-> "called", result |-> r, of |-> "outcome"] :
                           r \in OutcomeInputs}

\* the call returns its ConfidenceScore
EvaluateFactors ==
  /\ evaluation.of = "factors"
  /\ evaluation.pc = "called"
  /\ evaluation' = [pc |-> "returned", of |-> "factors",
                    weights |-> evaluation.weights,
                    factors |-> evaluation.factors,
                    score |-> calculateConfidenceOfFactors(evaluation.factors,
                                                           evaluation.weights)]
  /\ UNCHANGED <<reducerVars, storeVars, engineVars, migrationVars,
                 scheduleVars, timeoutVars>>

\* the call returns its number
EvaluateOutcome ==
  /\ evaluation.of = "outcome"
  /\ evaluation.pc = "called"
  /\ evaluation' = [pc |-> "returned", result |-> evaluation.result,
                    of |-> "outcome",
                    score |-> calculateConfidence(evaluation.result)]
  /\ UNCHANGED <<reducerVars, storeVars, engineVars, migrationVars,
                 scheduleVars, timeoutVars>>

NextEvaluate ==
  \/ EvaluateFactors
  \/ EvaluateOutcome

SpecEvaluate == InitEvaluate /\ [][NextEvaluate]_vars

(***************************************************************************)
(* TimeoutManager (browser/timeout.ts).  JavaScript runs each method and   *)
(* each timer callback to its end before the next begins; a timer armed by *)
(* setTimeout fires once unless clearTimeout disarms it first.             *)
(***************************************************************************)
Without(f, k) == [x \in DOMAIN f \ {k} |-> f[x]]

\* createTimeout: id = ++idCounter, setTimeout arms the timer, the handle is
\* put into the map; hasCallback says whether onTimeout was given
createTimeout(manager, hasCallback) ==
  LET id == manager.idCounter + 1
  IN [idCounter |-> id,
      timeouts |-> [x \in DOMAIN manager.timeouts \cup {id} |->
                      IF x = id THEN [cancelled |-> FALSE, onTimeout |-> hasCallback]
                                ELSE manager.timeouts[x]],
      timers |-> manager.timers \cup {id}]

\* whether a handle is in the map and not cancelled
Live(manager, id) ==
  id \in DOMAIN manager.timeouts /\ ~manager.timeouts[id].cancelled

\* the callback given to setTimeout: the timer is spent; a live handle is
\* deleted and its onTimeout, if any, called
timerCallback(manager, id) ==
  [fired |-> Live(manager, id),
   manager |-> [manager EXCEPT !.timers = @ \ {id},
                               !.timeouts = IF Live(manager, id)
                                              THEN Without(@, id) ELSE @],
   called |-> Live(manager, id) /\ manager.timeouts[id].onTimeout]

\* mutant: a cancellation that marks the handle and leaves the timer armed
\* and the handle in the map
cancelTimeoutMarking(manager, id) ==
  IF id \in DOMAIN manager.timeouts /\ ~manager.timeouts[id].cancelled
    THEN [manager |-> [manager EXCEPT !.timeouts[id].cancelled = TRUE],
          returned |-> TRUE]
    ELSE [manager |-> manager, returned |-> FALSE]

\* cancelTimeout: a live handle has its timer cleared, is marked cancelled
\* and deleted from the map
cancelTimeout(manager, id) ==
  IF Live(manager, id)
    THEN [manager |-> [manager EXCEPT !.timers = @ \ {id},
                                      !.timeouts = Without(@, id)],
          returned |-> TRUE]
    ELSE [manager |-> manager, returned |-> FALSE]

\* cancelAll: the timer of every handle not cancelled is cleared, the map is
\* emptied; the number of handles cancelled is returned
cancelAll(manager) ==
  LET live == {id \in DOMAIN manager.timeouts : Live(manager, id)}
  IN [cancelled |-> live,
      manager |-> [manager EXCEPT !.timers = @ \ live, !.timeouts = <<>>],
      returned |-> Cardinality(live)]

\* getActiveCount: this.timeouts.size
getActiveCount(manager) == Cardinality(DOMAIN manager.timeouts)

CreateTimeout ==
  /\ timeoutManager.idCounter < MaxTimeouts
  /\ \E hasCallback \in BOOLEAN :
       /\ timeoutManager' = createTimeout(timeoutManager, hasCallback)
       /\ timeoutLog' = [timeoutLog EXCEPT
                          !.last = [id |-> timeoutManager.idCounter + 1,
                                    op |-> "createTimeout"]]
  /\ UNCHANGED <<reducerVars, storeVars, engineVars, migrationVars,
                 scheduleVars, evaluatorVars>>

\* the runtime runs the callback of an armed timer
TimerCallback ==
  /\ \E id \in timeoutManager.timers :
       LET r == timerCallback(timeoutManager, id) IN
       /\ timeoutManager' = r.manager
       /\ timeoutLog' = [timeoutLog EXCEPT
                          !.fired = IF r.fired THEN @ \cup {id} ELSE @,
                          !.runs[id] = IF r.called THEN @ + 1 ELSE @,
                          !.last = [id |-> id, op |-> "timer", called |-> r.called]]
  /\ UNCHANGED <<reducerVars, storeVars, engineVars, migrationVars,
                 scheduleVars, evaluatorVars>>

\* cancelTimeout with a handle or an id, created by this manager or not
CancelTimeout ==
  /\ \E id \in TimeoutIds :
       LET r == cancelTimeout(timeoutManager, id) IN
       /\ timeoutManager' = r.manager
       /\ timeoutLog' = [timeoutLog EXCEPT
                          !.cancelled = IF r.returned THEN @ \cup {id} ELSE @,
                          !.trueCancels[id] = IF r.returned THEN @ + 1 ELSE @,
                          !.last = [id |-> id, op |-> "cancelTimeout",
                                    returned |-> r.returned,
                                    hadFired |-> id \in timeoutLog.fired]]
  /\ UNCHANGED <<reducerVars, storeVars, engineVars, migrationVars,
                 scheduleVars, evaluatorVars>>

CancelAll ==
  /\ LET r == cancelAll(timeoutManager) IN
       /\ timeoutManager' = r.manager
       /\ timeoutLog' = [timeoutLog EXCEPT
                          !.cancelled = @ \cup r.cancelled,
                          !.last = [op |-> "cancelAll", returned |-> r.returned]]
  /\ UNCHANGED <<reducerVars, storeVars, engineVars, migrationVars,
                 scheduleVars, evaluatorVars>>

NextTimeouts ==
  \/ CreateTimeout
  \/ TimerCallback
  \/ CancelTimeout
  \/ CancelAll

InitTimeouts == InitReducer

SpecTimeouts == InitTimeouts /\ [][NextTimeouts]_vars

(***************************************************************************)
(* C1                                                                      *)
(***************************************************************************)
SprintNumbersOf(sessionId) ==
  {sprints[x].sprint_number : x \in SprintsOf(sprints, sessionId)}

\* C1: createSprint calls for one existing session, issued in any order
\* (each call is one uninterrupted step: the method body holds no await and
\* the driver is synchronous), all succeed, and the session's sprints carry
\* exactly the numbers 1..N, without duplicate or gap.
C1_SprintNumbers ==
  /\ \A s \in DOMAIN sessions :
       SprintNumbersOf(s) = 1..Cardinality(SprintsOf(sprints, s))
  /\ (lastOp.op = "createSprint" /\ lastOp.existed) => lastOp.kind = "ok"

\* MaxSprints sprints were created for one session, the last one just now
C1_Witness ==
  /\ lastOp.op = "createSprint"
  /\ lastOp.kind = "ok"
  /\ \E s \in DOMAIN sessions : Cardinality(SprintsOf(sprints, s)) = MaxSprints

(***************************************************************************)
(* C3                                                                      *)
(***************************************************************************)
\* C3: a session whose status is completed, failed or cancelled keeps that
\* status: the only status changes are from active to a terminal status.
C3_TerminalStatusKept ==
  [][\A s \in DOMAIN sessions \cap DOMAIN sessions' :
       sessions[s].status \in TerminalStatus
         => sessions'[s].status = sessions[s].status]_vars

(***************************************************************************)
(* C5                                                                      *)
(***************************************************************************)
\* C5: cleanupOldSessions(maxAge) deletes a session only if its status is
\* terminal and its last update is older than now - maxAge.
C5_CleanupOnlyOldTerminal ==
  lastOp.op = "cleanup" =>
    \A d \in lastOp.deleted :
      /\ d.status \in TerminalStatus
      /\ d.updated < lastOp.cutoff

(***************************************************************************)
(* C6                                                                      *)
(***************************************************************************)
\* C6: every sprint refers to an existing session, every artifact to an
\* existing sprint, every checkpoint to an existing session and an existing
\* sprint; createSprint for an absent session fails and stores nothing.
C6_NoOrphans ==
  /\ \A x \in DOMAIN sprints : sprints[x].session_id \in DOMAIN sessions
  /\ \A a \in DOMAIN artifacts : artifacts[a].sprint_id \in DOMAIN sprints
  /\ \A c \in DOMAIN checkpoints :
       /\ checkpoints[c].session_id \in DOMAIN sessions
       /\ checkpoints[c].sprint_id \in DOMAIN sprints
  /\ (lastOp.op = "createSprint" /\ ~lastOp.existed) => lastOp.kind = "err"

\* cleanup has just deleted a session together with a sprint, an artifact and
\* a checkpoint
C6_Witness ==
  /\ lastOp.op = "cleanup"
  /\ lastOp.count > 0
  /\ \A i \in 1..3 : lastOp.cascaded[i] > 0

(***************************************************************************)
(* C9                                                                      *)
(***************************************************************************)
CheckpointKept(c) ==
  /\ c \in DOMAIN checkpoints'
  /\ checkpoints'[c] = checkpoints[c]

AsCreated(c) ==
  /\ checkpoints[c].session_id = cpGiven[c].sessionId
  /\ checkpoints[c].sprint_id = cpGiven[c].sprintId
  /\ checkpoints[c].name = cpGiven[c].name
  /\ checkpoints[c].state = JsonState(cpGiven[c].state)

\* C9 as claimed: a checkpoint row never changes, and it disappears only
\* when its own session is deleted.
C9_Claimed ==
  [][\A c \in DOMAIN checkpoints :
       \/ CheckpointKept(c)
       \/ /\ c \notin DOMAIN checkpoints'
          /\ checkpoints[c].session_id \notin DOMAIN sessions']_vars

\* C9 amended: a checkpoint row holds the values it was created with for as
\* long as it exists, and it disappears only when its own session or the
\* session of its sprint is deleted.
C9_CheckpointImmutable ==
  /\ [](\A c \in DOMAIN checkpoints : AsCreated(c))
  /\ [][\A c \in DOMAIN checkpoints :
          \/ CheckpointKept(c)
          \/ /\ c \notin DOMAIN checkpoints'
             /\ \/ checkpoints[c].session_id \notin DOMAIN sessions'
                \/ sprints[checkpoints[c].sprint_id].session_id \notin DOMAIN sessions']_vars

\* a checkpoint is gone although the session it was created for still exists
C9_Witness ==
  \E c \in DOMAIN cpGiven :
    /\ c \notin DOMAIN checkpoints
    /\ cpGiven[c].sessionId \in DOMAIN sessions

(***************************************************************************)
(* C4                                                                      *)
(***************************************************************************)
\* C4: loading or restoring a checkpoint at any later time returns exactly
\* the session, sprint, artifact and memory values that were passed in when
\* it was created, whatever happened to the live session in between.
C4_RoundTrip ==
  /\ \A c \in DOMAIN checkpoints :
       loadCheckpoint(c).value.state = cpGiven[c].state
  /\ (lastOp.op = "restore" /\ lastOp.kind = "ok")
       => lastOp.state = cpGiven[lastOp.id].state

(***************************************************************************)
(* C7                                                                      *)
(***************************************************************************)
\* C7: along every execution, overlapping sprint requests included, each
\* stored value of a session's sprintCount is at least the previous one.
C7_SprintCountMonotone ==
  [][\A s \in DOMAIN sessions \cap DOMAIN sessions' :
       sessions'[s].sprint_count >= sessions[s].sprint_count]_vars

(***************************************************************************)
(* C8                                                                      *)
(***************************************************************************)
\* C8: a sprint request that starts after a cancel request for its session
\* has been answered fails and creates no sprint row: it never gets past its
\* checks, and its answer is an error.
C8_NoSprintAfterCancel ==
  /\ \A f \in DOMAIN reqs : f.handler = "sprint" => ~f.afterCancel
  /\ (lastOp.op = "sprint" /\ lastOp.afterCancel) => lastOp.kind = "err"

(***************************************************************************)
(* C10                                                                     *)
(***************************************************************************)
\* C10: a restore request, successful or not, leaves every session, sprint,
\* artifact and checkpoint row as it was.
C10_RestoreFrame ==
  [][lastOp'.op = "restore" => tables' = tables]_vars

\* a restore has just answered with a snapshot whose sprintCount is no
\* longer that of the live session
C10_Witness ==
  /\ lastOp.op = "restore"
  /\ lastOp.kind = "ok"
  /\ cpGiven[lastOp.id].sessionId \in DOMAIN sessions
  /\ sessions[cpGiven[lastOp.id].sessionId].sprint_count
       # lastOp.state.session.sprintCount

\* C11: a cleanup that directly follows a cleanup with the same maximum age,
\* the clock unchanged and no other call in between, reports 0 deleted
\* sessions and leaves every table as the first run left it
C11_SecondCleanupDeletesNothing ==
  [][(/\ lastOp.op = "cleanup"
      /\ lastOp.at = now
      /\ now' = now
      /\ lastOp'.op = "cleanup"
      /\ lastOp'.cutoff = lastOp.cutoff)
     => (lastOp'.count = 0 /\ tables' = tables)]_vars

\* a second run right after a run that deleted at least one session
C11_Witness ==
  /\ lastOp.op = "cleanup"
  /\ lastOp.repeat
  /\ lastOp.count = 0
  /\ lastOp.at = now


\* the sprints of a session that existed once sprint x had been inserted:
\* sprint ids are handed out in creation order and a sprint row leaves the
\* table only together with every other sprint of its session
SprintsAtCreation(x) ==
  {y \in SprintsOf(sprints, sprints[x].session_id) : y <= x}

\* C12: in every reachable state, a session with k sprints has exactly the
\* sprint numbers 1..k, each sprint's number is the 1-based count of the
\* session's sprints at the moment it was created, and getSprintsBySession
\* returns the k sprints in ascending sprintNumber order
C12_SprintListing ==
  \A s \in DOMAIN sessions :
    LET k == Cardinality(SprintsOf(sprints, s))
        listed == getSprintsBySession(s)
    IN /\ {sprints[x].sprint_number : x \in SprintsOf(sprints, s)} = 1..k
       /\ \A x \in SprintsOf(sprints, s) :
            sprints[x].sprint_number = Cardinality(SprintsAtCreation(x))
       /\ DOMAIN listed = 1..k
       /\ \A i \in 1..k : /\ listed[i].sprintNumber = i
                          /\ listed[i].sessionId = s
       /\ \A i, j \in 1..k : i < j => listed[i].sprintNumber < listed[j].sprintNumber

\* a session listing more than one sprint; its last sprint was created after
\* a sprint of the same session
C12_Witness ==
  \E s \in DOMAIN sessions :
    LET listed == getSprintsBySession(s)
    IN /\ DOMAIN listed = 1..MaxSprints
       /\ listed[1].id < listed[MaxSprints].id


\* C13: when more decisions have been taken in a phase than its iteration
\* cap allows and the decision is not to advance, the decision reports a
\* stall, an answer different from the ordinary "criteria not met" answers
C13_StallReported ==
  (/\ decision # NoDecision
   /\ iterations > PHASE_CRITERIA[swarm.phase].maxIterations
   /\ ~decision.shouldTransition)
  => decision.reason \notin {"Confidence below minimum",
                             "Completion rate below required",
                             "No valid next phase available"}


\* the phases an aggregate has been through, its own phase last
PhasePath(state) ==
  [i \in 1..(Len(state.previousStates) + 1) |->
     IF i <= Len(state.previousStates)
       THEN state.previousStates[i].phase ELSE state.phase]

\* C14: the aggregate gets from planning to completing, and only through
\* accepted transitions: at every moment its history starts at planning and
\* each step of it is a pair of the transition table, and an aggregate in
\* phase completing has been in planning, executing, testing and refactoring,
\* in this order, and entered completing from refactoring
C14_CompletingThroughValidTransitions ==
  LET path == PhasePath(swarm)
      n == Len(path)
  IN /\ path[1] = "planning"
     /\ \A i \in 1..(n - 1) : <<path[i], path[i + 1]>> \in AcceptedPairs
     /\ swarm.phase = "completing" =>
          /\ path[n - 1] = "refactoring"
          /\ \E i, j, k \in 1..(n - 1) :
               /\ i < j /\ j < k
               /\ path[i] = "planning"
               /\ path[j] = "executing"
               /\ path[k] = "testing"

\* completing reached by the four transitions planning -> executing ->
\* testing -> refactoring -> completing, each accepted
C14_Witness ==
  /\ PhasePath(swarm) = <<"planning", "executing", "testing", "refactoring", "completing">>
  /\ lastAction = [phase |-> "completing", type |-> "TRANSITION_PHASE"]
  /\ lastResult = "ok"


\* C15: an aggregate in phase completing stays in completing: every
\* TRANSITION_PHASE dispatched on it is rejected and leaves it as it is, and
\* no UPDATE_CONFIDENCE, ADD_TASK, UPDATE_TASK, ASSIGN_TASK or UPDATE_AGENT
\* action, accepted or rejected, changes the phase
C15_CompletingIsTerminal ==
  [][/\ swarm.phase = "completing" => swarm'.phase = "completing"
     /\ (swarm.phase = "completing" /\ lastAction'.type = "TRANSITION_PHASE")
          => (lastResult' = "err" /\ swarm' = swarm)
     /\ lastAction'.type # "TRANSITION_PHASE" => swarm'.phase = swarm.phase]_vars

\* an aggregate in completing that was given a task and assigned it, and on
\* which a TRANSITION_PHASE has then been rejected
C15_Witness ==
  /\ swarm.phase = "completing"
  /\ prevSwarm = swarm
  /\ lastAction.type = "TRANSITION_PHASE"
  /\ lastResult = "err"
  /\ Len(swarm.tasks) > 0
  /\ \E i \in 1..Len(swarm.agents) : swarm.agents[i].status = "busy"


\* the schema objects a migration's DDL makes when every statement of it
\* takes effect
ObjectsOf(migration) == {<<migration.version, i>> : i \in DOMAIN migration.up}

IsValidScript(up) == \A i \in DOMAIN up : up[i] = "create"

\* how often a migration occurs in a list
Occurrences(list, migration) == Cardinality({i \in DOMAIN list : list[i] = migration})

\* a version is in the ledger if and only if the whole DDL of a migration
\* of that version is in effect, and nothing else is
LedgerMatchesSchema ==
  /\ \A o \in schema : o[1] \in ledger.rows
  /\ \A v \in ledger.rows :
       \E up \in Scripts :
         /\ IsValidScript(up)
         /\ {o \in schema : o[1] = v} = ObjectsOf([version |-> v, up |-> up])

\* a call that could not read the ledger (no migrations table) has returned
\* an error and applied nothing; for any other call, what it has applied,
\* failed on and left, in this order, is the migrations of its argument newer
\* than the version it read, in ascending version order
RunFollowsLedger(run) ==
  LET attempted == IF run.failed = NoMigration THEN run.applied
                   ELSE Append(run.applied, run.failed)
      order == attempted \o run.pending
      readFailed == run.result = "err" /\ run.failed = NoMigration
  IN /\ readFailed => order = <<>>
     /\ ~readFailed =>
          \A m \in MigrationInputs :
            Occurrences(order, m) =
              IF m.version > run.currentVersion THEN Occurrences(run.list, m) ELSE 0
     /\ \A i, j \in DOMAIN order : i < j => order[i].version <= order[j].version
     /\ \A i \in DOMAIN run.applied :
          /\ IsValidScript(run.applied[i].up)
          /\ run.applied[i].version \in ledger.rows
     /\ run.failed # NoMigration =>
          ~IsValidScript(run.failed.up) \/ run.failed.version \in ledger.rows
     /\ run.result = "ok" => (run.failed = NoMigration /\ run.pending = <<>>)
     /\ run.result = "err" => run.pc = "done"

\* a step in which a call applies a migration adds that version to the
\* ledger and its objects to the schema; a step in which a call fails
\* changes neither the ledger nor the schema
MigrateStepIsAtomic ==
  \A r \in DOMAIN runs :
    /\ (runs[r].result = "none" /\ runs'[r].result = "err")
         => (ledger' = ledger /\ schema' = schema)
    /\ Len(runs'[r].applied) > Len(runs[r].applied) =>
         LET m == runs'[r].applied[Len(runs'[r].applied)]
         IN /\ m.version \notin ledger.rows
            /\ ledger'.rows = ledger.rows \cup {m.version}
            /\ schema' = schema \cup ObjectsOf(m)

\* the version a call reads is the highest version in the ledger, 0 for an
\* empty ledger
ReadsHighestVersion ==
  (Len(runs') > Len(runs) /\ ledger.exists) =>
    LET read == runs'[Len(runs')].currentVersion
    IN /\ \A v \in ledger.rows : v <= read
       /\ read \in ledger.rows \/ (ledger.rows = {} /\ read = 0)

\* C16: migrate applies exactly the migrations of its argument whose version
\* is greater than the highest version in the ledger, in ascending version
\* order, each atomically with its ledger row (a version is in the ledger if
\* and only if its DDL is in effect), and stops at the first migration that
\* fails: that step leaves the ledger and the schema as they were and no
\* later migration is attempted
C16_MigrateAppliesNewerInOrder ==
  /\ [](LedgerMatchesSchema
        /\ \A r \in DOMAIN runs : runs[r].pc # "read" => RunFollowsLedger(runs[r]))
  /\ [][ReadsHighestVersion /\ MigrateStepIsAtomic]_vars

\* a call given its migrations out of order has stopped at the one with the
\* lower version, whose DDL is invalid; the later one was left alone
C16_Witness ==
  \E r \in DOMAIN runs :
    /\ runs[r].pc = "done"
    /\ runs[r].result = "err"
    /\ Len(runs[r].list) = 2
    /\ runs[r].list[1].version > runs[r].list[2].version
    /\ runs[r].failed = runs[r].list[2]
    /\ ~IsValidScript(runs[r].failed.up)
    /\ runs[r].pending = <<runs[r].list[1]>>
    /\ runs[r].list[1].version \notin ledger.rows


\* a call that repeats a list which an earlier call had been given and had
\* returned ok for
IsRepeat(run) == run.repeat /\ run.pc # "read"

\* C17: running the migrations again after a successful run of the same list
\* applies no migration and returns ok, and no step of the second run adds a
\* ledger row or changes the schema or a stored row
C17_MigrateIdempotent ==
  /\ [](\A r \in DOMAIN runs :
          IsRepeat(runs[r]) =>
            /\ runs[r].applied = <<>>
            /\ runs[r].failed = NoMigration
            /\ runs[r].result # "err")
  /\ [][\A r \in DOMAIN runs :
          (runs[r].repeat /\ runs'[r] # runs[r]) =>
            /\ ledger' = ledger
            /\ schema' = schema
            /\ tables' = tables]_vars

\* a list of two migrations was applied by one call, given again to a
\* second call, and the second call has returned
C17_Witness ==
  \E r, q \in DOMAIN runs :
    /\ q < r
    /\ runs[q].list = runs[r].list
    /\ Len(runs[q].applied) = 2
    /\ runs[r].repeat
    /\ runs[r].pc = "done"
    /\ runs[r].result = "ok"


\* C18: a step in which a cycle fails leaves the timer as it is; cycles
\* start only while the timer is active, and once the cancel function has
\* cleared it no further cycle starts; and as long as the timer is active
\* the next cycle does start, whatever the earlier cycles returned
C18_FailedCycleKeepsSchedule ==
  /\ [][schedule'.failed > schedule.failed => schedule'.timer = schedule.timer]_vars
  /\ [][schedule'.started > schedule.started => schedule.timer = "active"]_vars
  /\ [][schedule.timer = "cleared" =>
          (schedule'.timer = "cleared" /\ schedule'.started = schedule.started)]_vars
  /\ \A n \in 0..(MaxCycles - 1) :
       (schedule.timer = "active" /\ schedule.started = n)
         ~> (schedule.started > n \/ schedule.timer = "cleared")

\* a cycle that began after a failed cycle had been logged is in flight
C18_Witness ==
  /\ schedule.failed > 0
  /\ \E f \in DOMAIN cycles : f.after > 0


\* the checkpoint rows after a step are those before it and one more, which
\* holds all of what createCheckpoint was given
OneCheckpointStored(session_id) ==
  \E id \in DOMAIN checkpoints' \ DOMAIN checkpoints :
    /\ DOMAIN checkpoints' = DOMAIN checkpoints \cup {id}
    /\ \A c \in DOMAIN checkpoints : checkpoints'[c] = checkpoints[c]
    /\ checkpoints'[id].session_id = session_id
    /\ checkpoints'[id].sprint_id \in SprintsOf(sprints, session_id)
    /\ checkpoints'[id].name = cpGiven'[id].name
    /\ checkpoints'[id].state = JsonState(cpGiven'[id].state)

\* C19: a checkpoint request is answered with an error when its session
\* does not exist or has no sprint; a request answered with an error, for
\* whatever reason (missing session or sprint, state that cannot be
\* serialized, database error), leaves the checkpoint rows as they were,
\* and a request answered with ok has stored exactly one complete row
C19_FailedCheckpointStoresNothing ==
  [][lastOp'.op = "checkpoint" =>
       /\ lastOp'.session_id \notin DOMAIN sessions => lastOp'.kind = "err"
       /\ SprintsOf(sprints, lastOp'.session_id) = {} => lastOp'.kind = "err"
       /\ lastOp'.kind = "err" => checkpoints' = checkpoints
       /\ lastOp'.kind = "ok" => OneCheckpointStored(lastOp'.session_id)]_vars

\* createCheckpoint has failed on the INSERT for a session that has a sprint
C19_Witness ==
  /\ lastOp.op = "checkpoint"
  /\ lastOp.kind = "err"
  /\ lastOp.reason = "disk I/O error"
  /\ SprintsOf(sprints, lastOp.session_id) # {}


\* C20: for an id that no session has, updateSession returns an error,
\* whatever fields it is given, and leaves the sessions table as it is
C20_UpdateAbsentFails ==
  \A id \in SessionIdInputs \ DOMAIN sessions, updates \in SessionUpdateInputs :
    LET r == updateSession(id, updates)
    IN /\ r.result.kind = "err"
       /\ r.sessions = sessions

\* C21: a status, sprint, checkpoint, cancel or metrics request that names a
\* session id no session was ever created with is answered with an error
C21_UnknownSessionAnswersError ==
  (/\ lastOp.op \in {"status", "sprint", "checkpoint", "cancel", "metrics"}
   /\ lastOp.session_id > ids.session)
    => lastOp.kind = "err"

\* C22: shouldTransitionPhase answers shouldTransition = true, with a next
\* phase, only when the recomputed confidence is at least the phase's
\* minConfidence and completed / total is at least its requiredCompletions;
\* when either is unmet, or there is no task, it answers false without a
\* phase.  The decision last taken is one of these answers.
CriteriaMet(state, confidence) ==
  LET total == Len(state.tasks)
      completed == Cardinality({i \in 1..total : state.tasks[i].status = "completed"})
      criteria == PHASE_CRITERIA[state.phase]
  IN /\ confidence * 10 >= criteria.minConfidence
     /\ total > 0
     /\ completed * 100 >= criteria.requiredCompletions * total

C23_ConfidenceWithinBounds ==
  /\ swarm.confidence \in 0..10
  /\ (/\ lastAction.type = "UPDATE_CONFIDENCE"
      /\ lastAction.confidence # NaN
      /\ (lastAction.confidence < 0 \/ lastAction.confidence > 10))
       => (lastResult = "err" /\ swarm = prevSwarm)
  /\ lastAction.type \notin {"UPDATE_CONFIDENCE", "NONE"}
       => swarm.confidence = prevSwarm.confidence

\* C24: the history is append-only.  An accepted TRANSITION_PHASE appends
\* exactly one entry, the aggregate as it was just before, after all existing
\* entries; every other action and every rejected action leaves the history
\* as it was.
C24_HistoryAppendOnly ==
  [][IF lastAction'.type = "TRANSITION_PHASE" /\ lastResult' = "ok"
       THEN swarm'.previousStates = Append(swarm.previousStates, swarm)
       ELSE swarm'.previousStates = swarm.previousStates]_vars

\* a task was assigned after a transition whose snapshot holds the task
C24_Witness ==
  /\ Len(swarm.previousStates) = 1
  /\ Len(swarm.previousStates[1].tasks) = 1
  /\ lastAction.type = "ASSIGN_TASK"
  /\ lastResult = "ok"

\* C25: ASSIGN_TASK(taskId, agentId) is rejected, and the aggregate kept,
\* when no task or no agent has the id; when both exist the (first) task
\* with the id has assignedTo = agentId, the agent has status busy and
\* currentTask = taskId, and every other task, every other agent, the phase,
\* the confidence and the history are as before.
HasId(seq, id) == \E i \in 1..Len(seq) : seq[i].id = id

FirstWithId(seq, id) ==
  CHOOSE i \in 1..Len(seq) : seq[i].id = id /\ \A j \in 1..(i - 1) : seq[j].id # id

C25_AssignTask ==
  lastAction.type = "ASSIGN_TASK" =>
    LET taskId == lastAction.taskId
        agentId == lastAction.agentId
        found == HasId(prevSwarm.tasks, taskId) /\ HasId(prevSwarm.agents, agentId)
    IN /\ (lastResult = "ok") <=> found
       /\ (lastResult = "err") <=> ~found
       /\ ~found => swarm = prevSwarm
       /\ found =>
            LET i == FirstWithId(prevSwarm.tasks, taskId)
                j == FirstWithId(prevSwarm.agents, agentId)
            IN /\ Len(swarm.tasks) = Len(prevSwarm.tasks)
               /\ swarm.tasks[i].assignedTo = agentId
               /\ swarm.tasks[i].id = taskId
               /\ swarm.tasks[i].status = prevSwarm.tasks[i].status
               /\ \A k \in 1..Len(swarm.tasks) :
                    k # i => swarm.tasks[k] = prevSwarm.tasks[k]
               /\ Len(swarm.agents) = Len(prevSwarm.agents)
               /\ swarm.agents[j].status = "busy"
               /\ swarm.agents[j].currentTask = taskId
               /\ swarm.agents[j].id = agentId
               /\ \A k \in 1..Len(swarm.agents) :
                    k # j => swarm.agents[k] = prevSwarm.agents[k]
               /\ swarm.phase = prevSwarm.phase
               /\ swarm.confidence = prevSwarm.confidence
               /\ swarm.previousStates = prevSwarm.previousStates

\* the second of two tasks was assigned while the other task is held by the
\* other agent
C25_Witness ==
  /\ lastAction.type = "ASSIGN_TASK"
  /\ lastResult = "ok"
  /\ Len(swarm.tasks) = 2
  /\ swarm.tasks[1].id # swarm.tasks[2].id
  /\ lastAction.taskId = swarm.tasks[2].id
  /\ \E k \in 1..Len(swarm.agents) :
       /\ swarm.agents[k].id # lastAction.agentId
       /\ swarm.agents[k].currentTask = swarm.tasks[1].id
       /\ swarm.tasks[1].assignedTo = swarm.agents[k].id

\* C26: the factor-based calculateConfidence returns a value within [0,1]
\* for every factor vector and every weight vector, factors outside [0,1],
\* negative weights and weights that sum to zero included
C26_ScoreWithinBounds ==
  (evaluation.of = "factors" /\ evaluation.pc = "returned") =>
    /\ IsFinite(evaluation.score.value)
    /\ ~LessThan(evaluation.score.value, Zero)
    /\ ~LessThan(One, evaluation.score.value)

\* C27: when exactly one of the seven weights is nonzero, and positive, and
\* every factor is within [0,1], calculateConfidence returns exactly the
\* factor of that weight
WithinUnit(x) == IsFinite(x) /\ ~LessThan(x, Zero) /\ ~LessThan(One, x)

OnlyWeight(weights, key) ==
  /\ LessThan(Zero, weights[key])
  /\ \A other \in FactorKeySet \ {key} : weights[other] = Zero

C27_SingleWeightSelectsFactor ==
  (evaluation.of = "factors" /\ evaluation.pc = "returned") =>
    \A key \in FactorKeySet :
      (/\ OnlyWeight(evaluation.weights, key)
       /\ \A k \in FactorKeySet : WithinUnit(evaluation.factors[k]))
        => evaluation.score.value = evaluation.factors[key]

\* the only weight is 2, on consensusLevel, whose factor differs from the
\* others'
C27_Witness ==
  /\ evaluation.of = "factors"
  /\ evaluation.pc = "returned"
  /\ OnlyWeight(evaluation.weights, "consensusLevel")
  /\ evaluation.weights["consensusLevel"] = Ratio(2, 1)
  /\ evaluation.factors["consensusLevel"] = Ratio(5, 10)
  /\ evaluation.factors["successRate"] = One
  /\ evaluation.factors["experience"] = Zero
  /\ \A k \in FactorKeySet : WithinUnit(evaluation.factors[k])
  /\ evaluation.score.value = Ratio(5, 10)

\* C28: the outcome-based confidence is 0 whenever the success flag is
\* false, whatever the output holds; for a successful execution it is within
\* [0,1], an output with the same or more of the indicators 'completed' and
\* 'success' and the same or fewer of 'error' and 'failed' never scores
\* lower
AtLeastAsGood(q, r) ==
  /\ r.completed => q.completed
  /\ r.successWord => q.successWord
  /\ q.errorWord => r.errorWord
  /\ q.failedWord => r.failedWord

C28_OutcomeConfidence ==
  (evaluation.of = "outcome" /\ evaluation.pc = "returned") =>
    LET r == evaluation.result IN
    /\ ~r.success => evaluation.score = 0
    /\ r.success =>
         /\ evaluation.score \in 0..10
         /\ \A q \in OutcomeInputs :
              (q.success /\ AtLeastAsGood(q, r))
                => calculateConfidence(q) >= evaluation.score
         /\ \A q \in OutcomeInputs :
              (q.success /\ AtLeastAsGood(r, q))
                => calculateConfidence(q) =< evaluation.score

\* a failed execution whose output holds 'completed' and 'success' has been
\* scored
C28_Witness ==
  /\ evaluation.of = "outcome"
  /\ evaluation.pc = "returned"
  /\ ~evaluation.result.success
  /\ evaluation.result.completed
  /\ evaluation.result.successWord
  /\ ~evaluation.result.errorWord
  /\ ~evaluation.result.failedWord
  /\ evaluation.score = 0


(***************************************************************************)
(* C29: the result of a sprint request has should_continue = true exactly  *)
(* when the sprint's confidence is below the confidence_threshold the      *)
(* session was initialised with (0.8 when none was given), for every       *)
(* threshold in [0,1] including 0.                                         *)
(* The code reads the threshold as `threshold || 0.8`, so a session        *)
(* initialised with the threshold 0 is judged against 0.8.                 *)
(***************************************************************************)
SprintAnswered == lastOp.op = "sprint" /\ lastOp.kind = "ok"

C29_ShouldContinueBelowThreshold ==
  SprintAnswered =>
    (lastOp.should_continue <=>
       lastOp.confidence < sessions[lastOp.session_id].metadata.confidence_threshold)

(***************************************************************************)
(* C30: listCheckpoints(sessionId) returns the session's checkpoints       *)
(* newest first: whenever checkpoint a was created before checkpoint b for *)
(* the same session, b appears before a in the list, also when both were   *)
(* created within the same clock tick of the stored creation time.         *)
(* Checkpoint ids are given in the order of creation.  The query orders by *)
(* created_at alone, so checkpoints of one tick come in either order.      *)
(***************************************************************************)
Listed == lastOp.op = "listCheckpoints"

C30_NewestFirst ==
  Listed =>
    \A i, j \in DOMAIN lastOp.value :
      lastOp.value[i].id < lastOp.value[j].id => j < i

(***************************************************************************)
(* C31: the state stored by a checkpoint request contains all artifacts    *)
(* that exist for the sprint the checkpoint is taken against at that time  *)
(* (together with the session, all its sprints and the memory blob).       *)
(* handleCheckpoint passes artifacts: [] whatever the artifacts table      *)
(* holds.                                                                  *)
(***************************************************************************)
CheckpointAnswered == lastOp.op = "checkpoint" /\ lastOp.kind = "ok"

C31_CheckpointHoldsArtifacts ==
  CheckpointAnswered =>
    LET stored == checkpoints[ids.checkpoint] IN
    \A a \in DOMAIN artifacts :
      artifacts[a].sprint_id = stored.sprint_id =>
        \E i \in DOMAIN stored.state.artifacts : stored.state.artifacts[i].id = a

(***************************************************************************)
(* C32: every sprint created by a sprint request passes through the        *)
(* statuses planning, then executing, then completed or failed, in that    *)
(* order and without returning to an earlier status; once it is completed  *)
(* or failed with its result attached, no later request changes it (only   *)
(* the deletion of its session removes it).                                *)
(***************************************************************************)
SprintEnded(row) == row.status \in {"completed", "failed"}

SprintStatusStep(from, to) ==
  \/ to = from
  \/ from = "planning" /\ to = "executing"
  \/ from = "executing" /\ to \in {"completed", "failed"}

SprintLifecycleStep ==
  /\ \A id \in DOMAIN sprints' \ DOMAIN sprints : sprints'[id].status = "planning"
  /\ \A id \in DOMAIN sprints :
       IF id \in DOMAIN sprints'
         THEN /\ SprintStatusStep(sprints[id].status, sprints'[id].status)
              /\ SprintEnded(sprints[id]) => sprints'[id] = sprints[id]
              /\ sprints'[id].status = "completed" => sprints'[id].result # "null"
         ELSE sprints[id].session_id \notin DOMAIN sessions'

SprintInFlight(session_id) ==
  \E f \in DOMAIN reqs : f.handler = "sprint" /\ f.session_id = session_id

CompletedSprintsOf(session_id) ==
  {x \in DOMAIN sprints :
     sprints[x].session_id = session_id /\ sprints[x].status = "completed"}

C33_SprintCountIsCompleted ==
  \A session_id \in DOMAIN sessions :
    ~SprintInFlight(session_id) =>
      sessions[session_id].sprint_count = Cardinality(CompletedSprintsOf(session_id))

(***************************************************************************)
(* C34: at the moment a checkpoint row is created by a checkpoint request, *)
(* the session and the sprint list stored in it equal the session row and  *)
(* the sprint rows then in storage, even when sprint or cancel requests    *)
(* for the same session run between the request's reads and its write.     *)
(* The handler reads the session, then the sprints, then the memory, each  *)
(* behind an await, and writes what it read.                               *)
(***************************************************************************)
C34_CheckpointIsCurrent ==
  CheckpointAnswered =>
    LET stored == checkpoints[ids.checkpoint]
        current == getSprintsBySession(stored.session_id)
    IN /\ stored.state.session = JsonObject(getSession(stored.session_id).value)
       /\ stored.state.sprints = [i \in DOMAIN current |-> JsonObject(current[i])]

(***************************************************************************)
(* C35: every phase that the phase-advance decision proposes is accepted   *)
(* by the reducer: for every aggregate for which shouldTransitionPhase     *)
(* returns shouldTransition = true with nextPhase p, reduceState with      *)
(* TRANSITION_PHASE p on that aggregate succeeds.                          *)
(***************************************************************************)
ProposalAccepted(state, confidence) ==
  LET proposal == shouldTransitionPhase(state, confidence).value
  IN proposal.shouldTransition =>
       reduceState(state, [phase |-> proposal.nextPhase,
                           type |-> "TRANSITION_PHASE"]).kind = "ok"

ConductorReturned == conductor.pc = "returned"

PassEndsInErrorOrCompleting ==
  /\ conductor.passes <= 1
  /\ (conductor.pc = "loop" /\ conductor.passes > 0) => swarm.phase = "completing"
  /\ (ConductorReturned /\ conductor.result = "ok") =>
       /\ swarm.phase = "completing"
       /\ conductor.saves # <<>>
       /\ conductor.saves[Len(conductor.saves)] = swarm

C36_RunSwarmTerminates == []PassEndsInErrorOrCompleting /\ <>ConductorReturned

\* a call that went through the loop body, advanced from testing to
\* refactoring, and returned success
C36_Witness ==
  /\ ConductorReturned
  /\ conductor.result = "ok"
  /\ conductor.passes = 1
  /\ Len(conductor.saves) = 2

(***************************************************************************)
(* C37: after any sequence of ADD_TASK and ASSIGN_TASK actions applied     *)
(* from createInitialState, task assignment stays consistent: whenever an  *)
(* agent's currentTask is t, task t exists and its assignedTo is that      *)
(* agent, and no two agents have the same currentTask.                     *)
(* assignTask writes the task and the new agent only: the agent the task   *)
(* was assigned to before keeps it as its currentTask.                     *)
(***************************************************************************)
C37_AssignmentConsistent ==
  /\ \A a \in 1..Len(swarm.agents) :
       swarm.agents[a].currentTask # Undefined =>
         \E t \in 1..Len(swarm.tasks) :
           /\ swarm.tasks[t].id = swarm.agents[a].currentTask
           /\ swarm.tasks[t].assignedTo = swarm.agents[a].id
  /\ \A a, b \in 1..Len(swarm.agents) :
       (a # b /\ swarm.agents[a].currentTask # Undefined) =>
         swarm.agents[a].currentTask # swarm.agents[b].currentTask

(***************************************************************************)
(* C38: a session never has more sprints than the max_sprints value it was *)
(* initialised with (10 by default): a sprint request for a session that   *)
(* already has max_sprints sprints fails and creates no sprint.            *)
(* handleSprint tests the session's existence and status only; max_sprints *)
(* is stored in the metadata and never read.                               *)
(***************************************************************************)
C38_SprintsWithinLimit ==
  \A session_id \in DOMAIN sessions :
    Cardinality(SprintsOf(sprints, session_id))
      <= sessions[session_id].metadata.max_sprints

(***************************************************************************)
(* C39: for every timeout created by TimeoutManager.createTimeout, the     *)
(* onTimeout callback runs at most once and never after cancelTimeout      *)
(* returned true for it or after cancelAll; cancelTimeout returns true at  *)
(* most once per timeout and returns false once the timeout has fired;     *)
(* getActiveCount always equals the number of timeouts created that have   *)
(* neither fired nor been cancelled.                                       *)
(***************************************************************************)
CreatedTimeouts == 1..timeoutManager.idCounter

TimeoutsConsistent ==
  /\ \A id \in TimeoutIds :
       /\ timeoutLog.runs[id] <= 1
       /\ timeoutLog.trueCancels[id] <= 1
       /\ timeoutLog.runs[id] > 0 => id \in timeoutLog.fired
  /\ timeoutLog.fired \cap timeoutLog.cancelled = {}
  /\ (timeoutLog.last.op = "cancelTimeout" /\ timeoutLog.last.hadFired)
       => ~timeoutLog.last.returned
  /\ getActiveCount(timeoutManager)
       = Cardinality(CreatedTimeouts \ (timeoutLog.fired \cup timeoutLog.cancelled))

\* a timer callback never calls onTimeout for a timeout cancelled before
CallbackOnlyBeforeCancel ==
  \A id \in TimeoutIds :
    id \in timeoutLog.cancelled => timeoutLog'.runs[id] = timeoutLog.runs[id]

C39_TimeoutsFireOrCancelOnce ==
  []TimeoutsConsistent /\ [][CallbackOnlyBeforeCancel]_vars

\* one timeout has fired and called onTimeout, another was cancelled by
\* cancelTimeout, a third by cancelAll, and a cancelTimeout for the fired
\* one has returned false
C39_Witness ==
  /\ \E a, b, c \in CreatedTimeouts :
       /\ timeoutLog.runs[a] = 1
       /\ timeoutLog.trueCancels[b] = 1
       /\ c \in timeoutLog.cancelled /\ timeoutLog.trueCancels[c] = 0
       /\ timeoutLog.last = [id |-> a, op |-> "cancelTimeout", returned |-> FALSE,
                             hadFired |-> TRUE]

=============================================================================
